---------------------------- MODULE Spec2Model ----------------------------
(***************************************************************************)
(* A model of kamasi: the note / interval algebra (src/src/note.ts and the *)
(* Interval class) and the bitmask reverse search (src/src/search.ts,      *)
(* src/src/notelist.ts) over the chord and scale catalogs.                 *)
(*                                                                         *)
(* JavaScript strings are sequences of one-character strings, so that      *)
(* formatting and parsing are computed and not assumed.  A JavaScript      *)
(* number that may be NaN is a record [nan, v].  A 32-bit integer used as  *)
(* a bitmask is the set of its set bit positions (0..31).  A thrown error  *)
(* is the value Thrown.                                                    *)
(***************************************************************************)
EXTENDS Integers, Sequences, FiniteSets, TLC

VARIABLES
    pc,         \* which operation produced `out` ("init" before any call)
    n1,         \* first note operand
    n2,         \* second note operand
    iv,         \* interval operand
    out,        \* value returned (or Thrown) by the last operation
    index,      \* search.ts: the module-level lazy index cache
    intervals,  \* search(): the interval notations of the needle
    enharmonic, \* search(): the enharmonic flag
    tonic,      \* chord()/scale(): tonic notation ("" when omitted)
    name,       \* chord()/scale(): catalog name
    nl,         \* note list operand (its notes)
    sgn,        \* sign operand of new Interval
    num,        \* numeric operand (MIDI number, semitones, diatonic steps)
    num2,       \* second numeric operand (semitones of fromSteps)
    iv2,        \* second interval operand
    str         \* string operand of fromString

vars ==
    <<pc, n1, n2, iv, out, index, intervals, enharmonic, tonic, name, nl, sgn,
      num, num2, iv2, str>>

----------------------------------------------------------------------------
(* Bounds of the model *)

MaxAcc == 2         \* notes carry at most MaxAcc sharps or flats
MaxOctave == 1      \* pitches have octaves -1..MaxOctave
MaxNumber == 15     \* interval operands have numbers 1..MaxNumber
MaxQuality == 2     \* augmented / diminished operands stack at most this deep
MaxSemitones == 13  \* numeric transpose operands are -MaxSemitones..MaxSemitones
MaxTonicAcc == 1    \* tonic notations carry at most MaxTonicAcc sharps or flats
MaxListLen == 2     \* note lists hold at most MaxListLen notes
MaxSpan == 26       \* fromSemitones / fromSteps draw semitones in -MaxSpan..MaxSpan

----------------------------------------------------------------------------
(* JavaScript values *)

Thrown == [thrown |-> TRUE]

\* a helper's ordinary return value (helpers may throw instead)
Ok(v) == [thrown |-> FALSE, v |-> v]

NaN == [nan |-> TRUE, v |-> 0]

Num(v) == [nan |-> FALSE, v |-> v]

\* Number.isInteger
isInteger(x) == ~x.nan

\* x + d for an integer d: NaN is absorbing
numAdd(x, d) == IF x.nan THEN NaN ELSE Num(x.v + d)

\* x || NaN : 0 and NaN are falsy
orNaN(x) == IF x.nan \/ x.v = 0 THEN NaN ELSE x

\* x === y on numbers: NaN equals nothing
strictEq(x, y) == ~x.nan /\ ~y.nan /\ x.v = y.v

\* String.prototype.repeat for a one-character string
RECURSIVE repeat(_, _)
repeat(c, k) == IF k <= 0 THEN <<>> ELSE <<c>> \o repeat(c, k - 1)

\* Array.prototype.indexOf (0-based, -1 when absent)
RECURSIVE indexOfFrom(_, _, _)
indexOfFrom(arr, x, k) ==
    IF k > Len(arr) THEN -1
    ELSE IF arr[k] = x THEN k - 1
    ELSE indexOfFrom(arr, x, k + 1)

indexOf(arr, x) == indexOfFrom(arr, x, 1)

DigitChars == <<"0", "1", "2", "3", "4", "5", "6", "7", "8", "9">>

\* decimal digits of a natural number, as Number.prototype.toString writes them
RECURSIVE natToString(_)
natToString(k) ==
    IF k < 10 THEN <<DigitChars[k + 1]>>
    ELSE natToString(k \div 10) \o <<DigitChars[(k % 10) + 1]>>

intToString(k) == IF k < 0 THEN <<"-">> \o natToString(-k) ELSE natToString(k)

isDigit(c) == indexOf(DigitChars, c) >= 0

\* value of a non-empty run of decimal digits
RECURSIVE digitsValue(_)
digitsValue(s) ==
    IF Len(s) = 0 THEN 0
    ELSE 10 * digitsValue(SubSeq(s, 1, Len(s) - 1)) + indexOf(DigitChars, s[Len(s)])

\* length of the longest prefix of s (from position k) made of characters in cs
RECURSIVE runLength(_, _, _)
runLength(s, k, cs) ==
    IF k > Len(s) \/ s[k] \notin cs THEN 0 ELSE 1 + runLength(s, k + 1, cs)

\* parseInt(s, 10) for s matching -?[0-9]* : NaN when there is no digit
parseInt(s) ==
    LET neg  == Len(s) > 0 /\ s[1] = "-"
        rest == IF neg THEN Tail(s) ELSE s
        k    == runLength(rest, 1, {DigitChars[j] : j \in 1..10})
    IN  IF k = 0 THEN NaN
        ELSE Num((IF neg THEN -1 ELSE 1) * digitsValue(SubSeq(rest, 1, k)))

----------------------------------------------------------------------------
(* utils *)

mod(dividend, divisor, offset) ==
    dividend - divisor * ((dividend - offset) \div divisor)

----------------------------------------------------------------------------
(* data/intervals *)

DIATONIC ==
    << <<"P", 0>>, <<"M", 2>>, <<"M", 4>>, <<"P", 5>>,
       <<"P", 7>>, <<"M", 9>>, <<"M", 11>> >>

CHROMATIC ==
    << <<"P", 1>>, <<"m", 2>>, <<"M", 2>>, <<"m", 3>>, <<"M", 3>>, <<"P", 4>>,
       <<"A", 4>>, <<"P", 5>>, <<"m", 6>>, <<"M", 6>>, <<"m", 7>>, <<"M", 7>> >>

----------------------------------------------------------------------------
(* Interval *)

\* quality.match(/^[PMm]|[A]+|[d]+$/): the alternation binds loosest, so the
\* pattern accepts a string that starts with P, M or m, or contains an A, or
\* ends with a d
qualityPattern(quality) ==
    \/ Len(quality) > 0 /\ quality[1] \in {"P", "M", "m"}
    \/ \E k \in 1..Len(quality) : quality[k] = "A"
    \/ Len(quality) > 0 /\ quality[Len(quality)] = "d"

\* TRUE when validateInterval returns without throwing (number is an integer)
validateInterval(quality, number, direction) ==
    /\ qualityPattern(quality)
    /\ number >= 1
    /\ direction \in {"+", "-"}
    /\ LET mainType == DIATONIC[mod(number - 1, Len(DIATONIC), 0) + 1][1]
       IN  ~ \/ mainType = "P" /\ quality = <<"M">>
             \/ mainType = "P" /\ quality = <<"m">>
             \/ mainType = "M" /\ quality = <<"P">>

\* the semitone diff of a quality, or Thrown
qualityToSemitoneDiff(type, quality) ==
    IF type = "P" /\ quality = <<"P">> THEN Ok(0)
    ELSE IF type = "P" /\ quality[1] = "A" THEN Ok(Len(quality))
    ELSE IF type = "P" /\ quality[1] = "d" THEN Ok(-Len(quality))
    ELSE IF type = "M" /\ quality = <<"M">> THEN Ok(0)
    ELSE IF type = "M" /\ quality = <<"m">> THEN Ok(-1)
    ELSE IF type = "M" /\ quality[1] = "A" THEN Ok(Len(quality))
    ELSE IF type = "M" /\ quality[1] = "d" THEN Ok(-Len(quality) - 1)
    ELSE Thrown

\* a slip: a major-type number has no quality below minor
semitoneDiffToQuality_noDiminished(type, semitoneDiff) ==
    IF type = "P" /\ semitoneDiff = 0 THEN Ok(<<"P">>)
    ELSE IF type = "P" /\ semitoneDiff > 0 THEN Ok(repeat("A", semitoneDiff))
    ELSE IF type = "P" /\ semitoneDiff < 0 THEN Ok(repeat("d", -semitoneDiff))
    ELSE IF type = "M" /\ semitoneDiff = 0 THEN Ok(<<"M">>)
    ELSE IF type = "M" /\ semitoneDiff = -1 THEN Ok(<<"m">>)
    ELSE IF type = "M" /\ semitoneDiff > 0 THEN Ok(repeat("A", semitoneDiff))
    ELSE Thrown

semitoneDiffToQuality(type, semitoneDiff) ==
    IF type = "P" /\ semitoneDiff = 0 THEN Ok(<<"P">>)
    ELSE IF type = "P" /\ semitoneDiff > 0 THEN Ok(repeat("A", semitoneDiff))
    ELSE IF type = "P" /\ semitoneDiff < 0 THEN Ok(repeat("d", -semitoneDiff))
    ELSE IF type = "M" /\ semitoneDiff = 0 THEN Ok(<<"M">>)
    ELSE IF type = "M" /\ semitoneDiff = -1 THEN Ok(<<"m">>)
    ELSE IF type = "M" /\ semitoneDiff > 0 THEN Ok(repeat("A", semitoneDiff))
    ELSE IF type = "M" /\ semitoneDiff < -1 THEN Ok(repeat("d", -semitoneDiff - 1))
    ELSE Thrown

\* a slip: minor is not swapped to major
invertQuality_keepsMinor(quality) ==
    IF quality[1] = "P" THEN Ok(<<"P">>)
    ELSE IF quality[1] = "M" THEN Ok(<<"m">>)
    ELSE IF quality[1] = "m" THEN Ok(<<"m">>)
    ELSE IF quality[1] = "A" THEN Ok(repeat("d", Len(quality)))
    ELSE IF quality[1] = "d" THEN Ok(repeat("A", Len(quality)))
    ELSE Thrown

invertQuality(quality) ==
    IF quality[1] = "P" THEN Ok(<<"P">>)
    ELSE IF quality[1] = "M" THEN Ok(<<"m">>)
    ELSE IF quality[1] = "m" THEN Ok(<<"M">>)
    ELSE IF quality[1] = "A" THEN Ok(repeat("d", Len(quality)))
    ELSE IF quality[1] = "d" THEN Ok(repeat("A", Len(quality)))
    ELSE Thrown

\* new Interval(quality, number, sign), number an integer
Interval(quality, number, sign) ==
    IF ~validateInterval(quality, number, sign) THEN Thrown
    ELSE
    LET s            == IF sign = "+" THEN 1 ELSE -1
        octaveSteps  == 12 * ((number - 1) \div Len(DIATONIC))
        entry        == DIATONIC[mod(number - 1, Len(DIATONIC), 0) + 1]
        qualitySteps == qualityToSemitoneDiff(entry[1], quality)
    IN  IF qualitySteps.thrown THEN Thrown
        ELSE [thrown         |-> FALSE,
              quality        |-> quality,
              number         |-> number,
              sign           |-> s,
              diatonicSteps  |-> s * (number - 1),
              chromaticSteps |-> s * (octaveSteps + entry[2] + qualitySteps.v)]

abs(k) == IF k < 0 THEN -k ELSE k

\* a slip: eight diatonic steps are re-added per octave
Interval_fromSemitones_eightPerOctave(semitones) ==
    LET chromaticSteps == abs(semitones)
        octaves        == chromaticSteps \div 12
        entry          == CHROMATIC[mod(chromaticSteps, 12, 0) + 1]
        sign           == IF semitones >= 0 THEN "+" ELSE "-"
    IN  Interval(<<entry[1]>>, entry[2] + 8 * octaves, sign)

Interval_fromSemitones(semitones) ==
    LET chromaticSteps == abs(semitones)
        octaves        == chromaticSteps \div 12
        entry          == CHROMATIC[mod(chromaticSteps, 12, 0) + 1]
        sign           == IF semitones >= 0 THEN "+" ELSE "-"
    IN  Interval(<<entry[1]>>, entry[2] + 7 * octaves, sign)

\* a slip: the octaves are left out of the semitones the number spans
Interval_fromSteps_noOctave(diatonicSteps, semitones) ==
    LET number       == abs(diatonicSteps) + 1
        sign         == IF diatonicSteps >= 0 THEN 1 ELSE -1
        entry        == DIATONIC[mod(number - 1, Len(DIATONIC), 0) + 1]
        semitoneDiff == sign * semitones - entry[2]
        quality      == semitoneDiffToQuality(entry[1], semitoneDiff)
    IN  IF quality.thrown THEN Thrown
        ELSE Interval(quality.v, number, IF sign = 1 THEN "+" ELSE "-")

\* a slip: the sign is taken from the semitones
Interval_fromSteps_signOfSemitones(diatonicSteps, semitones) ==
    LET number       == abs(diatonicSteps) + 1
        sign         == IF semitones >= 0 THEN 1 ELSE -1
        octaveSteps  == 12 * ((number - 1) \div 7)
        entry        == DIATONIC[mod(number - 1, Len(DIATONIC), 0) + 1]
        semitoneDiff == sign * semitones - (octaveSteps + entry[2])
        quality      == semitoneDiffToQuality(entry[1], semitoneDiff)
    IN  IF quality.thrown THEN Thrown
        ELSE Interval(quality.v, number, IF sign = 1 THEN "+" ELSE "-")

Interval_fromSteps(diatonicSteps, semitones) ==
    LET number       == abs(diatonicSteps) + 1
        sign         == IF diatonicSteps >= 0 THEN 1 ELSE -1
        octaveSteps  == 12 * ((number - 1) \div 7)
        entry        == DIATONIC[mod(number - 1, Len(DIATONIC), 0) + 1]
        semitoneDiff == sign * semitones - (octaveSteps + entry[2])
        quality      == semitoneDiffToQuality(entry[1], semitoneDiff)
    IN  IF quality.thrown THEN Thrown
        ELSE Interval(quality.v, number, IF sign = 1 THEN "+" ELSE "-")

Interval_simplify(i) == Interval_fromSemitones(i.chromaticSteps)

\* a slip: the octave is its own inversion
Interval_invert_octaveFixed(i) ==
    LET invQuality == invertQuality(i.quality)
        invNumber  == IF i.number = 1 THEN 8 ELSE 9 - mod(i.number, 7, 1)
    IN  IF invQuality.thrown THEN Thrown
        ELSE Interval(invQuality.v, invNumber, IF i.sign = 1 THEN "+" ELSE "-")

Interval_invert(i) ==
    LET invQuality == invertQuality(i.quality)
        invNumber  == IF i.number = 1 THEN 8 ELSE 9 - mod(i.number, 7, 2)
    IN  IF invQuality.thrown THEN Thrown
        ELSE Interval(invQuality.v, invNumber, IF i.sign = 1 THEN "+" ELSE "-")

\* a slip: the '+' of an ascending interval is printed
Interval_toString_plusSign(i) ==
    (IF i.sign = -1 THEN <<"-">> ELSE <<"+">>) \o i.quality \o natToString(i.number)

Interval_toString(i) ==
    (IF i.sign = -1 THEN <<"-">> ELSE <<>>) \o i.quality \o natToString(i.number)

\* a slip: the sum is spelled from its semitones alone
Interval_add_fromSemitones(i, interval) ==
    Interval_fromSemitones(i.chromaticSteps + interval.chromaticSteps)

Interval_add(i, interval) ==
    Interval_fromSteps(i.diatonicSteps + interval.diatonicSteps,
                       i.chromaticSteps + interval.chromaticSteps)

\* a slip: the semitones are added
Interval_sub_addsSemitones(i, interval) ==
    Interval_fromSteps(i.diatonicSteps - interval.diatonicSteps,
                       i.chromaticSteps + interval.chromaticSteps)

Interval_sub(i, interval) ==
    Interval_fromSteps(i.diatonicSteps - interval.diatonicSteps,
                       i.chromaticSteps - interval.chromaticSteps)

\* a slip: the number is reduced modulo 8
Interval_simpleTerm_mod8(i) ==
    LET number == (abs(i.diatonicSteps) % 8) + 1
    IN  Interval(i.quality, number, IF i.sign = 1 THEN "+" ELSE "-")

Interval_simpleTerm(i) ==
    LET number == (abs(i.diatonicSteps) % 7) + 1
    IN  Interval(i.quality, number, IF i.sign = 1 THEN "+" ELSE "-")

Interval_isCompound(i) == i.number >= 8

Interval_isEnharmonic(i, interval) == i.chromaticSteps = interval.chromaticSteps

\* Interval.fromString: /^([+-]?)([PMm]|[A]+|[d]+)([0-9]*)$/ then the
\* constructor; any failure is rethrown as "not a valid interval"
Interval_fromString(notation) ==
    LET dirLen  == IF Len(notation) > 0 /\ notation[1] \in {"+", "-"} THEN 1 ELSE 0
        q1      == dirLen + 1
        qualLen == IF q1 > Len(notation) THEN 0
                   ELSE IF notation[q1] \in {"P", "M", "m"} THEN 1
                   ELSE IF notation[q1] = "A" THEN runLength(notation, q1, {"A"})
                   ELSE IF notation[q1] = "d" THEN runLength(notation, q1, {"d"})
                   ELSE 0
        rest    == SubSeq(notation, q1 + qualLen, Len(notation))
        dir     == IF dirLen = 1 THEN notation[1] ELSE "+"
        number  == parseInt(rest)
    IN  IF qualLen = 0 \/ \E k \in 1..Len(rest) : ~isDigit(rest[k]) THEN Thrown
        ELSE IF number.nan THEN Thrown
        ELSE Interval(SubSeq(notation, q1, q1 + qualLen - 1), number.v, dir)

----------------------------------------------------------------------------
(* Note *)

NOTE_LETTERS == <<"C", "D", "E", "F", "G", "A", "B">>

DEFAULT_NOTE ==
    << <<"C">>, <<"C", "#">>, <<"D">>, <<"D", "#">>, <<"E">>, <<"F">>,
       <<"F", "#">>, <<"G">>, <<"G", "#">>, <<"A">>, <<"A", "#">>, <<"B">> >>

\* String.prototype.toUpperCase on one character
toUpperCase(c) ==
    CASE c = "a" -> "A" [] c = "b" -> "B" [] c = "c" -> "C" [] c = "d" -> "D"
      [] c = "e" -> "E" [] c = "f" -> "F" [] c = "g" -> "G" [] OTHER -> c

accToNum(a) == IF Len(a) > 0 /\ a[1] = "b" THEN -Len(a) ELSE Len(a)

\* a slip: one flat whatever the count
numToAcc_oneFlat(k) == IF k > 0 THEN repeat("#", k) ELSE repeat("b", 1)

numToAcc(k) == IF k > 0 THEN repeat("#", k) ELSE repeat("b", -k)

\* TRUE when validateNote returns without throwing (octave is NaN or an integer)
validateNote(letter, accidentals, octave) ==
    /\ indexOf(NOTE_LETTERS, toUpperCase(letter)) >= 0
    /\ ~ /\ \E k \in 1..Len(accidentals) : accidentals[k] # "#"
         /\ \E k \in 1..Len(accidentals) : accidentals[k] # "b"

\* new Note(letter, accidentals, octave)
Note(letter, accidentals, octave) ==
    IF ~validateNote(letter, accidentals, octave) THEN Thrown
    ELSE [thrown          |-> FALSE,
          letter          |-> toUpperCase(letter),
          accidentals     |-> accidentals,
          octave          |-> octave,
          diatonicOffset  |-> indexOf(NOTE_LETTERS, toUpperCase(letter)),
          chromaticOffset |-> indexOf(DEFAULT_NOTE, <<toUpperCase(letter)>>)
                                + accToNum(accidentals)]

\* Note.fromString: /^([A-G])(#*|b*)(-?[0-9]?)$/ then the constructor
Note_fromString(notation) ==
    LET accLen == IF Len(notation) >= 2 /\ notation[2] = "#"
                  THEN runLength(notation, 2, {"#"})
                  ELSE runLength(notation, 2, {"b"})
        oct    == SubSeq(notation, 2 + accLen, Len(notation))
        digits == IF Len(oct) > 0 /\ oct[1] = "-" THEN Tail(oct) ELSE oct
    IN  IF Len(notation) = 0 \/ indexOf(NOTE_LETTERS, notation[1]) < 0 THEN Thrown
        ELSE IF Len(digits) > 1 \/ (Len(digits) = 1 /\ ~isDigit(digits[1])) THEN Thrown
        ELSE Note(notation[1], SubSeq(notation, 2, 1 + accLen), parseInt(oct))

Note_isPitch(n) == isInteger(n.octave)

Note_isPitchClass(n) == ~Note_isPitch(n)

\* a slip: the kinds of the two notes are not compared
Note_octaveDiff_noKindCheck(from, to) ==
    IF Note_isPitchClass(from)
    THEN Ok(IF from.chromaticOffset > to.chromaticOffset THEN 1 ELSE 0)
    ELSE Ok(to.octave.v - from.octave.v)

\* the octave difference, or Thrown for a pitch and a pitch class
Note_octaveDiff(from, to) ==
    IF Note_isPitchClass(from) # Note_isPitchClass(to) THEN Thrown
    ELSE IF Note_isPitchClass(from)
         THEN Ok(IF from.chromaticOffset > to.chromaticOffset THEN 1 ELSE 0)
         ELSE Ok(to.octave.v - from.octave.v)

\* note.transpose(interval) for an Interval object
Note_transpose(n, interval) ==
    LET diatonicTarget  == n.diatonicOffset + interval.diatonicSteps
        newLetter       == NOTE_LETTERS[mod(diatonicTarget, 7, 0) + 1]
        octaveDiff      == diatonicTarget \div 7
        newOctave       == numAdd(n.octave, octaveDiff)
        chromaticTarget == n.chromaticOffset + interval.chromaticSteps
        chromaticMoved  == indexOf(DEFAULT_NOTE, <<newLetter>>) + 12 * octaveDiff
        newAccidentals  == numToAcc(chromaticTarget - chromaticMoved)
    IN  Note(newLetter, newAccidentals, newOctave)

\* note.transpose(semitones) for a number
Note_transposeSemitones(n, semitones) ==
    Note_transpose(n, Interval_fromSemitones(semitones))

Note_simplify(n) ==
    LET octave  == numAdd(n.octave, n.chromaticOffset \div 12)
        noteStr == DEFAULT_NOTE[mod(n.chromaticOffset, 12, 0) + 1]
        root    == noteStr[1]
        acc     == IF Len(noteStr) >= 2 THEN <<noteStr[2]>> ELSE <<>>
    IN  Note(root, acc, orNaN(octave))

\* the signed semitone count, or Thrown
Note_distance(n, note) ==
    LET octaveDiff == Note_octaveDiff(n, note)
    IN  IF octaveDiff.thrown THEN Thrown
        ELSE Ok(note.chromaticOffset - n.chromaticOffset + 12 * octaveDiff.v)

\* a slip: the octave difference is left out of the diatonic steps
Note_intervalTo_noOctave(n, note) ==
    LET octaveDiff == Note_octaveDiff(n, note)
    IN  IF octaveDiff.thrown THEN Thrown
        ELSE Interval_fromSteps(
                 note.diatonicOffset - n.diatonicOffset,
                 note.chromaticOffset - n.chromaticOffset + 12 * octaveDiff.v)

Note_intervalTo(n, note) ==
    LET octaveDiff == Note_octaveDiff(n, note)
    IN  IF octaveDiff.thrown THEN Thrown
        ELSE Interval_fromSteps(
                 note.diatonicOffset - n.diatonicOffset + 7 * octaveDiff.v,
                 note.chromaticOffset - n.chromaticOffset + 12 * octaveDiff.v)

Note_intervalFrom(n, note) == Note_intervalTo(note, n)

Note_isEqual(n, note) ==
    /\ n.letter = note.letter
    /\ n.accidentals = note.accidentals
    /\ \/ Note_isPitchClass(n) /\ Note_isPitchClass(note)
       \/ strictEq(n.octave, note.octave)

\* && short-circuits, so distance is not evaluated for a mixed pair
Note_isEnharmonic(n, note) ==
    /\ Note_isPitchClass(n) = Note_isPitchClass(note)
    /\ Note_distance(n, note).v = 0

Note_toString(n) ==
    <<n.letter>> \o n.accidentals
        \o (IF n.octave.nan \/ n.octave.v = 0 THEN <<>> ELSE intToString(n.octave.v))

\* Note.compare(a, b): a number that is finite (inf = 0, value v) or an
\* infinity (inf = -1 or 1). `octave || -Infinity` is -Infinity for NaN and
\* for 0, and -Infinity - -Infinity is NaN, which || skips like a 0
Note_compare(a, b) ==
    LET aInf == a.octave.nan \/ a.octave.v = 0
        bInf == b.octave.nan \/ b.octave.v = 0
        rest == IF a.chromaticOffset - b.chromaticOffset # 0
                THEN a.chromaticOffset - b.chromaticOffset
                ELSE a.diatonicOffset - b.diatonicOffset
    IN  IF aInf /\ bInf THEN [inf |-> 0, v |-> rest]
        ELSE IF aInf THEN [inf |-> -1, v |-> 0]
        ELSE IF bInf THEN [inf |-> 1, v |-> 0]
        ELSE IF a.octave.v - b.octave.v # 0
             THEN [inf |-> 0, v |-> a.octave.v - b.octave.v]
        ELSE [inf |-> 0, v |-> rest]

\* Note.fromMidi(midi), midi an integer
Note_fromMidi(midi) ==
    IF midi < 0 \/ midi > 127 THEN Thrown
    ELSE Note_simplify(Note_transposeSemitones(Note("C", <<>>, Num(4)), midi - 60))

\* note.midi(): Ok of the MIDI number or of NaN, or Thrown for a pitch class
Note_midi(n) ==
    LET d    == Note_distance(n, Note("C", <<>>, Num(4)))
        midi == 60 - d.v
    IN  IF d.thrown THEN Thrown
        ELSE Ok(IF midi >= 0 /\ midi <= 127 THEN Num(midi) ELSE NaN)

----------------------------------------------------------------------------
(* String literals of the catalogs and tables, spelled out as characters *)

lit ==
    ("P1" :> <<"P", "1">>) @@ ("d2" :> <<"d", "2">>) @@ ("m2" :> <<"m", "2">>) @@
    ("A1" :> <<"A", "1">>) @@ ("M2" :> <<"M", "2">>) @@ ("d3" :> <<"d", "3">>) @@
    ("m3" :> <<"m", "3">>) @@ ("A2" :> <<"A", "2">>) @@ ("M3" :> <<"M", "3">>) @@
    ("d4" :> <<"d", "4">>) @@ ("P4" :> <<"P", "4">>) @@ ("A3" :> <<"A", "3">>) @@
    ("d5" :> <<"d", "5">>) @@ ("A4" :> <<"A", "4">>) @@ ("P5" :> <<"P", "5">>) @@
    ("d6" :> <<"d", "6">>) @@ ("m6" :> <<"m", "6">>) @@ ("A5" :> <<"A", "5">>) @@
    ("M6" :> <<"M", "6">>) @@ ("d7" :> <<"d", "7">>) @@ ("m7" :> <<"m", "7">>) @@
    ("A6" :> <<"A", "6">>) @@ ("M7" :> <<"M", "7">>) @@ ("d8" :> <<"d", "8">>) @@
    ("P8" :> <<"P", "8">>) @@ ("A7" :> <<"A", "7">>) @@ ("d9" :> <<"d", "9">>) @@
    ("m9" :> <<"m", "9">>) @@ ("A8" :> <<"A", "8">>) @@ ("M9" :> <<"M", "9">>) @@
    ("d10" :> <<"d", "1", "0">>) @@ ("m10" :> <<"m", "1", "0">>) @@ ("A9" :> <<"A", "9">>) @@
    ("M10" :> <<"M", "1", "0">>) @@ ("d11" :> <<"d", "1", "1">>) @@ ("P11" :> <<"P", "1", "1">>) @@
    ("A10" :> <<"A", "1", "0">>) @@ ("d12" :> <<"d", "1", "2">>) @@ ("A11" :> <<"A", "1", "1">>) @@
    ("P12" :> <<"P", "1", "2">>) @@ ("d13" :> <<"d", "1", "3">>) @@ ("m13" :> <<"m", "1", "3">>) @@
    ("A12" :> <<"A", "1", "2">>) @@ ("M13" :> <<"M", "1", "3">>) @@ ("d14" :> <<"d", "1", "4">>) @@
    ("P15" :> <<"P", "1", "5">>) @@ ("A13" :> <<"A", "1", "3">>) @@ ("-M3" :> <<"-", "M", "3">>) @@
    ("X" :> <<"X">>)

\* an array of string literals
lits(names) == [k \in DOMAIN names |-> lit[names[k]]]

----------------------------------------------------------------------------
(* data/intervals: the bit tables.  A mask is the set of its set bits. *)

\* 1 << k on 32-bit integers: the shift count is taken modulo 32
shl1(k) == {k % 32}

INTERVAL_BITMASK ==
    (lit["P1"] :> shl1(0)) @@ (lit["d2"] :> shl1(1)) @@ (lit["m2"] :> shl1(2)) @@
    (lit["A1"] :> shl1(3)) @@ (lit["M2"] :> shl1(4)) @@ (lit["d3"] :> shl1(5)) @@
    (lit["m3"] :> shl1(6)) @@ (lit["A2"] :> shl1(7)) @@ (lit["M3"] :> shl1(8)) @@
    (lit["d4"] :> shl1(9)) @@ (lit["P4"] :> shl1(10)) @@ (lit["A3"] :> shl1(11)) @@
    (lit["d5"] :> shl1(12)) @@ (lit["A4"] :> shl1(13)) @@ (lit["P5"] :> shl1(14)) @@
    (lit["d6"] :> shl1(15)) @@ (lit["m6"] :> shl1(16)) @@ (lit["A5"] :> shl1(17)) @@
    (lit["M6"] :> shl1(18)) @@ (lit["d7"] :> shl1(19)) @@ (lit["m7"] :> shl1(20)) @@
    (lit["A6"] :> shl1(21)) @@ (lit["M7"] :> shl1(22)) @@ (lit["d8"] :> shl1(23)) @@
    (lit["P8"] :> shl1(24)) @@ (lit["A7"] :> shl1(25)) @@ (lit["d9"] :> shl1(26)) @@
    (lit["m9"] :> shl1(27)) @@ (lit["A8"] :> shl1(28)) @@ (lit["M9"] :> shl1(29)) @@
    (lit["d10"] :> shl1(30)) @@ (lit["m10"] :> shl1(31)) @@ (lit["A9"] :> shl1(32)) @@
    (lit["M10"] :> shl1(33)) @@ (lit["d11"] :> shl1(34)) @@ (lit["P11"] :> shl1(35)) @@
    (lit["A10"] :> shl1(36)) @@ (lit["d12"] :> shl1(37)) @@ (lit["A11"] :> shl1(38)) @@
    (lit["P12"] :> shl1(39)) @@ (lit["d13"] :> shl1(40)) @@ (lit["m13"] :> shl1(41)) @@
    (lit["A12"] :> shl1(42)) @@ (lit["M13"] :> shl1(43)) @@ (lit["d14"] :> shl1(44))

INTERVAL_BITMASK_ENHARMONIC ==
    (lit["P1"] :> shl1(0)) @@ (lit["d2"] :> shl1(0)) @@ (lit["m2"] :> shl1(1)) @@
    (lit["A1"] :> shl1(1)) @@ (lit["M2"] :> shl1(2)) @@ (lit["d3"] :> shl1(2)) @@
    (lit["m3"] :> shl1(3)) @@ (lit["A2"] :> shl1(3)) @@ (lit["M3"] :> shl1(4)) @@
    (lit["d4"] :> shl1(4)) @@ (lit["P4"] :> shl1(5)) @@ (lit["A3"] :> shl1(5)) @@
    (lit["d5"] :> shl1(6)) @@ (lit["A4"] :> shl1(6)) @@ (lit["P5"] :> shl1(7)) @@
    (lit["d6"] :> shl1(7)) @@ (lit["m6"] :> shl1(8)) @@ (lit["A5"] :> shl1(8)) @@
    (lit["M6"] :> shl1(9)) @@ (lit["d7"] :> shl1(9)) @@ (lit["m7"] :> shl1(10)) @@
    (lit["A6"] :> shl1(10)) @@ (lit["M7"] :> shl1(11)) @@ (lit["d8"] :> shl1(11)) @@
    (lit["P8"] :> shl1(12)) @@ (lit["A7"] :> shl1(12)) @@ (lit["d9"] :> shl1(12)) @@
    (lit["m9"] :> shl1(13)) @@ (lit["A8"] :> shl1(13)) @@ (lit["M9"] :> shl1(14)) @@
    (lit["d10"] :> shl1(14)) @@ (lit["m10"] :> shl1(15)) @@ (lit["A9"] :> shl1(15)) @@
    (lit["M10"] :> shl1(16)) @@ (lit["d11"] :> shl1(16)) @@ (lit["P11"] :> shl1(17)) @@
    (lit["A10"] :> shl1(17)) @@ (lit["d12"] :> shl1(18)) @@ (lit["A11"] :> shl1(18)) @@
    (lit["P12"] :> shl1(19)) @@ (lit["d13"] :> shl1(19)) @@ (lit["m13"] :> shl1(20)) @@
    (lit["A12"] :> shl1(20)) @@ (lit["M13"] :> shl1(21)) @@ (lit["d14"] :> shl1(21))

----------------------------------------------------------------------------
(* data/chords and data/scales.  An object literal is the sequence of its
   <<key, value>> pairs in insertion order, which is the order `for ... in`
   visits them. *)

\* db[name]
entry(db, key) == db[CHOOSE k \in DOMAIN db : db[k][1] = key][2]

\* name in db
hasKey(db, key) == \E k \in DOMAIN db : db[k][1] = key

\* the keys in iteration order
keys(db) == [k \in DOMAIN db |-> db[k][1]]

\* the chord groups; X['name'].concat('i') is written out as the list it builds
TRIADS ==
    << <<"major", lits(<<"P1", "M3", "P5">>)>>,
       <<"minor", lits(<<"P1", "m3", "P5">>)>>,
       <<"augmented", lits(<<"P1", "M3", "A5">>)>>,
       <<"diminished", lits(<<"P1", "m3", "d5">>)>> >>

SIXTH ==
    << <<"major sixth", lits(<<"P1", "M3", "P5", "M6">>)>>,
       <<"minor sixth", lits(<<"P1", "m3", "P5", "M6">>)>> >>

SEVENTH ==
    << <<"dominant seventh", lits(<<"P1", "M3", "P5", "m7">>)>>,
       <<"major seventh", lits(<<"P1", "M3", "P5", "M7">>)>>,
       <<"minor seventh", lits(<<"P1", "m3", "P5", "m7">>)>>,
       <<"minor-major seventh", lits(<<"P1", "m3", "P5", "M7">>)>>,
       <<"diminished seventh", lits(<<"P1", "m3", "d5", "d7">>)>>,
       <<"half-diminished seventh", lits(<<"P1", "m3", "d5", "m7">>)>>,
       <<"augmented seventh", lits(<<"P1", "M3", "A5", "m7">>)>>,
       <<"augmented major seventh", lits(<<"P1", "M3", "A5", "M7">>)>>,
       <<"seventh flat five", lits(<<"P1", "M3", "d5", "m7">>)>> >>

NINTH ==
    << <<"dominant minor ninth", lits(<<"P1", "M3", "P5", "m7", "m9">>)>>,
       <<"dominant ninth", lits(<<"P1", "M3", "P5", "m7", "M9">>)>>,
       <<"major ninth", lits(<<"P1", "M3", "P5", "M7", "M9">>)>>,
       <<"minor ninth", lits(<<"P1", "m3", "P5", "m7", "M9">>)>>,
       <<"minor-major ninth", lits(<<"P1", "m3", "P5", "M7", "M9">>)>>,
       <<"diminished minor ninth", lits(<<"P1", "m3", "d5", "d7", "m9">>)>>,
       <<"diminished ninth", lits(<<"P1", "m3", "d5", "d7", "M9">>)>>,
       <<"half-diminished minor ninth", lits(<<"P1", "m3", "d5", "m7", "m9">>)>>,
       <<"half-diminished ninth", lits(<<"P1", "m3", "d5", "m7", "M9">>)>>,
       <<"augmented dominant ninth", lits(<<"P1", "M3", "A5", "m7", "M9">>)>>,
       <<"augmented major ninth", lits(<<"P1", "M3", "A5", "M7", "M9">>)>> >>

ELEVENTH ==
    << <<"eleventh", lits(<<"P1", "M3", "P5", "m7", "M9", "P11">>)>>,
       <<"major eleventh", lits(<<"P1", "M3", "P5", "M7", "M9", "P11">>)>>,
       <<"minor eleventh", lits(<<"P1", "m3", "P5", "m7", "M9", "P11">>)>>,
       <<"minor-major eleventh", lits(<<"P1", "m3", "P5", "M7", "M9", "P11">>)>>,
       <<"diminished eleventh", lits(<<"P1", "m3", "d5", "d7", "M9", "P11">>)>>,
       <<"half-diminished eleventh", lits(<<"P1", "m3", "d5", "m7", "M9", "P11">>)>>,
       <<"augmented eleventh", lits(<<"P1", "M3", "A5", "m7", "M9", "P11">>)>>,
       <<"augmented major eleventh", lits(<<"P1", "M3", "A5", "M7", "M9", "P11">>)>> >>

THIRTEENTH ==
    << <<"dominant thirtheenth", lits(<<"P1", "M3", "P5", "m7", "M9", "M13">>)>>,
       <<"thirteenth", lits(<<"P1", "M3", "P5", "m7", "M9", "P11", "M13">>)>>,
       <<"major thirteenth", lits(<<"P1", "M3", "P5", "M7", "M9", "P11", "M13">>)>>,
       <<"minor thirteenth", lits(<<"P1", "m3", "P5", "m7", "M9", "P11", "M13">>)>>,
       <<"minor-major thirteenth", lits(<<"P1", "m3", "P5", "M7", "M9", "P11", "M13">>)>>,
       <<"half-diminished thirteenth", lits(<<"P1", "m3", "d5", "m7", "M9", "P11", "M13">>)>>,
       <<"augmented thirteenth", lits(<<"P1", "M3", "A5", "m7", "M9", "P11", "M13">>)>>,
       <<"augmented major thirteenth", lits(<<"P1", "M3", "A5", "M7", "M9", "P11", "M13">>)>> >>

TONE ==
    << <<"mixed-third", lits(<<"P1", "M3", "P5", "m3">>)>>,
       <<"add fourth", lits(<<"P1", "M3", "P5", "P4">>)>>,
       <<"add nine", lits(<<"P1", "M3", "P5", "M9">>)>>,
       <<"seven-six", lits(<<"P1", "M3", "P5", "M6", "m7">>)>>,
       <<"six-nine", lits(<<"P1", "M3", "P5", "M6", "M9">>)>> >>

SUSPENDED ==
    << <<"suspended second", lits(<<"P1", "M2", "P5">>)>>,
       <<"suspended fourth", lits(<<"P1", "P4", "P5">>)>>,
       <<"suspended jazz", lits(<<"P1", "P5", "m7", "M9">>)>> >>

CHORDS ==
    TRIADS \o SIXTH \o SEVENTH \o NINTH \o ELEVENTH \o
    THIRTEENTH \o TONE \o SUSPENDED

SCALES ==
    << <<"major", lits(<<"P1", "M2", "M3", "P4", "P5", "M6", "M7">>)>>,
       <<"minor", lits(<<"P1", "M2", "m3", "P4", "P5", "m6", "m7">>)>>,
       <<"major harmonic", lits(<<"P1", "M2", "M3", "P4", "P5", "m6", "M7">>)>>,
       <<"major melodic", lits(<<"P1", "M2", "M3", "P4", "P5", "m6", "m7">>)>>,
       <<"minor harmonic", lits(<<"P1", "M2", "m3", "P4", "P5", "m6", "M7">>)>>,
       <<"minor melodic", lits(<<"P1", "M2", "m3", "P4", "P5", "M6", "M7">>)>>,
       <<"chromatic", lits(<<"P1", "m2", "M2", "m3", "M3", "P4", "A4", "P5", "m6", "M6", "m7", "M7">>)>>,
       <<"pentatonic major", lits(<<"P1", "M2", "M3", "P5", "M6">>)>>,
       <<"pentatonic minor", lits(<<"P1", "m3", "P4", "P5", "m7">>)>>,
       <<"pentatonic egyptian", lits(<<"P1", "M2", "P4", "P5", "m7">>)>>,
       <<"pentatonic japanese", lits(<<"P1", "m2", "P4", "P5", "m6">>)>>,
       <<"ionian", lits(<<"P1", "M2", "M3", "P4", "P5", "M6", "M7">>)>>,
       <<"dorian", lits(<<"P1", "M2", "m3", "P4", "P5", "M6", "m7">>)>>,
       <<"phygrian", lits(<<"P1", "m2", "m3", "P4", "P5", "m6", "m7">>)>>,
       <<"lydian", lits(<<"P1", "M2", "M3", "A4", "P5", "M6", "M7">>)>>,
       <<"mixolydian", lits(<<"P1", "M2", "M3", "P4", "P5", "M6", "m7">>)>>,
       <<"aeolian", lits(<<"P1", "M2", "m3", "P4", "P5", "m6", "m7">>)>>,
       <<"locrian", lits(<<"P1", "m2", "m3", "P4", "d5", "m6", "m7">>)>>,
       <<"dorian b2", lits(<<"P1", "m2", "m3", "P4", "P5", "M6", "m7">>)>>,
       <<"lydian augmented", lits(<<"P1", "M2", "M3", "A4", "A5", "M6", "M7">>)>>,
       <<"lydian dominant", lits(<<"P1", "M2", "M3", "A4", "P5", "M6", "m7">>)>>,
       <<"half-diminished", lits(<<"P1", "M2", "m3", "P4", "d5", "m6", "m7">>)>>,
       <<"altered", lits(<<"P1", "m2", "m3", "d4", "d5", "m6", "m7">>)>>,
       <<"blues major", lits(<<"P1", "M2", "P4", "P5", "M6">>)>>,
       <<"blues minor", lits(<<"P1", "m3", "P4", "m6", "m7">>)>>,
       <<"blues hexatonic", lits(<<"P1", "m3", "P4", "d5", "P5", "m7">>)>>,
       <<"blues heptatonic", lits(<<"P1", "M2", "m3", "P4", "d5", "M6", "m7">>)>>,
       <<"blues nonaonic", lits(<<"P1", "M2", "m3", "M3", "P4", "P5", "M6", "m7", "M7">>)>>,
       <<"bebop", lits(<<"P1", "M2", "M3", "P4", "P5", "M6", "m7", "M7">>)>>,
       <<"bebop minor", lits(<<"P1", "M2", "m3", "M3", "P4", "P5", "M6", "m7">>)>>,
       <<"bebop major", lits(<<"P1", "M2", "M3", "P4", "P5", "A5", "M6", "M7">>)>>,
       <<"bebop melodic minor", lits(<<"P1", "M2", "m3", "P4", "P5", "A5", "M6", "M7">>)>>,
       <<"bebop harmonic minor", lits(<<"P1", "M2", "m3", "P4", "P5", "m6", "m7", "M7">>)>>,
       <<"major double harmonic", lits(<<"P1", "m2", "M3", "P4", "P5", "m6", "M7">>)>>,
       <<"lydian #2 #6", lits(<<"P1", "A2", "M3", "A4", "P5", "A6", "M7">>)>>,
       <<"ultraphrygian", lits(<<"P1", "m2", "m3", "d4", "P5", "m6", "d7">>)>>,
       <<"minor hungarian", lits(<<"P1", "M2", "m3", "A4", "P5", "m6", "M7">>)>>,
       <<"oriental", lits(<<"P1", "m2", "M3", "P4", "d5", "M6", "m7">>)>>,
       <<"ionian #2 #5", lits(<<"P1", "A2", "M3", "P4", "A5", "M6", "M7">>)>>,
       <<"locrian bb3 bb7", lits(<<"P1", "m2", "d3", "P4", "d5", "m6", "d7">>)>>,
       <<"augmented", lits(<<"P1", "m3", "M3", "P5", "A5", "M7">>)>>,
       <<"diminished", lits(<<"P1", "M2", "m3", "P4", "d5", "m6", "M6", "M7">>)>>,
       <<"major locrian", lits(<<"P1", "M2", "M3", "P4", "d5", "m6", "m7">>)>>,
       <<"dorian ukrainian", lits(<<"P1", "M2", "m3", "A4", "P5", "M6", "m7">>)>>,
       <<"phrygian dominant", lits(<<"P1", "m2", "M3", "P4", "P5", "m6", "m7">>)>>,
       <<"enigmatic", lits(<<"P1", "m2", "M3", "A4", "A5", "A6", "M7">>)>>,
       <<"prometheus", lits(<<"P1", "M2", "M3", "A4", "M6", "m7">>)>> >>

CHORD_ALIAS ==
    << <<"", "major">>, <<"M", "major">>, <<"maj", "major">>,
       <<"-", "minor">>, <<"m", "minor">>, <<"min", "minor">>,
       <<"+", "augmented">>, <<"aug", "augmented">>, <<"o", "diminished">>,
       <<"dim", "diminished">>, <<"6", "major sixth">>,
       <<"M6", "major sixth">>, <<"maj6", "major sixth">>,
       <<"add sixth", "major sixth">>, <<"m6", "minor sixth">>,
       <<"min6", "minor sixth">>, <<"7", "dominant seventh">>,
       <<"dom7", "dominant seventh">>, <<"M7", "major seventh">>,
       <<"maj7", "major seventh">>, <<"m7", "minor seventh">>,
       <<"min7", "minor seventh">>, <<"mM7", "minor-major seventh">>,
       <<"minmaj7", "minor-major seventh">>, <<"o7", "diminished seventh">>,
       <<"dim7", "diminished seventh">>, <<"ø", "half-diminished seventh">>,
       <<"ø7", "half-diminished seventh">>, <<"+7", "augmented seventh">>,
       <<"aug7", "augmented seventh">>, <<"+M7", "augmented major seventh">>,
       <<"augM7", "augmented major seventh">>,
       <<"7b5", "seventh flat five">>, <<"7dim5", "seventh flat five">>,
       <<"7b9", "dominant minor ninth">>, <<"9", "dominant ninth">>,
       <<"M9", "major ninth">>, <<"maj9", "major ninth">>,
       <<"m9", "minor ninth">>, <<"min9", "minor ninth">>,
       <<"mM9", "minor-major ninth">>, <<"minmaj9", "minor-major ninth">>,
       <<"ob9", "diminished minor ninth">>,
       <<"dimb9", "diminished minor ninth">>, <<"o9", "diminished ninth">>,
       <<"dim9", "diminished ninth">>, <<"ø9", "half-diminished ninth">>,
       <<"øb9", "half-diminished minor ninth">>,
       <<"+9", "augmented dominant ninth">>,
       <<"aug9", "augmented dominant ninth">>,
       <<"+M9", "augmented major ninth">>,
       <<"augmaj9", "augmented major ninth">>, <<"11", "eleventh">>,
       <<"M11", "major eleventh">>, <<"maj11", "major eleventh">>,
       <<"m11", "minor eleventh">>, <<"min11", "minor eleventh">>,
       <<"mM11", "minor-major eleventh">>,
       <<"minmaj11", "minor-major eleventh">>,
       <<"o11", "diminished eleventh">>, <<"dim11", "diminished eleventh">>,
       <<"ø11", "half-diminished eleventh">>,
       <<"+11", "augmented eleventh">>, <<"aug11", "augmented eleventh">>,
       <<"+M11", "augmented major eleventh">>,
       <<"augmaj11", "augmented major eleventh">>, <<"13", "thirteenth">>,
       <<"M13", "major thirteenth">>, <<"maj13", "major thirteenth">>,
       <<"mM13", "minor-major thirteenth">>,
       <<"minmaj13", "minor-major thirteenth">>,
       <<"m13", "minor thirteenth">>, <<"min13", "minor thirteenth">>,
       <<"ø13", "half-diminished thirteenth">>,
       <<"+13", "augmented thirteenth">>,
       <<"aug13", "augmented thirteenth">>,
       <<"+M13", "augmented major thirteenth">>,
       <<"augmaj13", "augmented major thirteenth">>, <<"2", "add nine">>,
       <<"add9", "add nine">>, <<"4", "add fourth">>,
       <<"add11", "add fourth">>, <<"6/9", "six-nine">>,
       <<"7/6", "seven-six">>, <<"sus2", "suspended second">>,
       <<"sus", "suspended fourth">>, <<"sus4", "suspended fourth">>,
       <<"9sus4", "suspended jazz">> >>

SCALE_ALIAS ==
    << <<"", "major">>, <<"maj", "major">>, <<"major natural", "major">>,
       <<"m", "minor">>, <<"min", "minor">>, <<"minor natural", "minor">>,
       <<"mixolydian b6", "major melodic">>, <<"hindu", "major melodic">>,
       <<"myxeolian", "major melodic">>,
       <<"pentatonic suspended", "pentatonic egyptian">>,
       <<"man gong", "blues minor">>, <<"ritsusen", "blues major">>,
       <<"mayamalavagowla", "major double harmonic">>,
       <<"bhairav raga", "major double harmonic">>,
       <<"byzantine", "major double harmonic">>,
       <<"arabic", "major double harmonic">>,
       <<"flamenco", "major double harmonic">>,
       <<"major gypsy", "major double harmonic">>,
       <<"phygrian #6", "dorian b2">>, <<"lydian #5", "lydian augmented">>,
       <<"acoustic", "lydian dominant">>, <<"lydian b5", "lydian dominant">>,
       <<"mixolydian #4", "lydian dominant">>,
       <<"overtone", "lydian dominant">>,
       <<"lydomyxian", "lydian dominant">>,
       <<"aeolocrian", "half-diminished">>,
       <<"locrian 2", "half-diminished">>, <<"super locrian", "altered">>,
       <<"bebop dorian", "bebop minor">>,
       <<"minor gypsy", "minor hungarian">>,
       <<"romanian minor", "dorian ukrainian">>,
       <<"altered dorian", "dorian ukrainian">>,
       <<"misheberak", "dorian ukrainian">>,
       <<"altered phrygian", "phrygian dominant">>,
       <<"freygish", "phrygian dominant">> >>

----------------------------------------------------------------------------
(* search *)

\* the initial value of the module-level index
emptyIndex ==
    [chords |-> [exact |-> <<>>, enharmonic |-> <<>>],
     scales |-> [exact |-> <<>>, enharmonic |-> <<>>]]

\* bitwise operators on 32-bit integers
bitOr(a, b) == a \cup b

bitAnd(a, b) == a \cap b

bitNot(a) == (0..31) \ a

\* the filters with the direction of "sub" and "sup" exchanged
match_subSupSwapped(filter, a, b) ==
    CASE filter = "exact" -> a = b
      [] filter = "sub"   -> bitAnd(a, bitNot(b)) = {}
      [] filter = "sup"   -> bitAnd(bitNot(a), b) = {}

match(filter, a, b) ==
    CASE filter = "exact" -> a = b
      [] filter = "sub"   -> bitAnd(bitNot(a), b) = {}
      [] filter = "sup"   -> bitAnd(a, bitNot(b)) = {}

\* mask[cur] ?? -1: an unknown notation sets every bit
maskOf_unknownAllBits(mask, cur) == IF cur \in DOMAIN mask THEN mask[cur] ELSE 0..31

\* mask[cur] ?? 0
maskOf(mask, cur) == IF cur \in DOMAIN mask THEN mask[cur] ELSE {}

RECURSIVE reduceMask(_, _, _)
reduceMask(mask, arr, k) ==
    IF k = 0 THEN {} ELSE bitOr(reduceMask(mask, arr, k - 1), maskOf(mask, arr[k]))

bitmask(arr, enh) ==
    LET mask == IF enh THEN INTERVAL_BITMASK_ENHARMONIC ELSE INTERVAL_BITMASK
    IN  reduceMask(mask, arr, Len(arr))

enharmonicType(enh) == IF enh THEN "enharmonic" ELSE "exact"

\* the entries the loop of loadIndex pushes, per catalog and table
indexEntries ==
    [type \in {"chords", "scales"} |->
        [et \in {"exact", "enharmonic"} |->
            LET db == IF type = "chords" THEN CHORDS ELSE SCALES
            IN  [k \in DOMAIN db |->
                    [name    |-> db[k][1],
                     bitmask |-> bitmask(db[k][2], et = "enharmonic")]]]]

\* a push loop that skips a catalog whose entries are already cached
pushEntries_unlessCached(idx, type, enh) ==
    IF Len(idx[type][enharmonicType(enh)]) = 0
    THEN [idx EXCEPT ![type][enharmonicType(enh)] =
             indexEntries[type][enharmonicType(enh)]]
    ELSE idx

\* the for-in loop of loadIndex on its own: one push per catalog key, onto
\* whatever the cached list holds when the loop runs
pushEntries(idx, type, enh) ==
    [idx EXCEPT ![type][enharmonicType(enh)] =
        idx[type][enharmonicType(enh)] \o indexEntries[type][enharmonicType(enh)]]

\* a slip: the loop pushes on every call, whatever the cached list holds
loadIndex_noGuard(idx, type, enh) ==
    [idx EXCEPT ![type][enharmonicType(enh)] =
        idx[type][enharmonicType(enh)] \o indexEntries[type][enharmonicType(enh)]]

\* the index after loadIndex(type, enh): built when the cached list is empty
loadIndex(idx, type, enh) ==
    IF Len(idx[type][enharmonicType(enh)]) = 0
    THEN [idx EXCEPT ![type][enharmonicType(enh)] =
             indexEntries[type][enharmonicType(enh)]]
    ELSE idx

RECURSIVE filterNames(_, _, _, _)
filterNames(haystack, filter, needle, k) ==
    IF k > Len(haystack) THEN <<>>
    ELSE (IF match(filter, needle, haystack[k].bitmask)
          THEN <<haystack[k].name>> ELSE <<>>)
         \o filterNames(haystack, filter, needle, k + 1)

\* a slip: the haystack is the cached list as it was before loadIndex
searcher_cachedHaystack(idx, type, arr, filter, enh) ==
    filterNames(idx[type][enharmonicType(enh)], filter, bitmask(arr, enh), 1)

\* the names searcher returns, given the index loadIndex leaves
searcher(idx, type, arr, filter, enh) ==
    LET needle   == bitmask(arr, enh)
        haystack == loadIndex(idx, type, enh)[type][enharmonicType(enh)]
    IN  filterNames(haystack, filter, needle, 1)

\* arr[0]
at0(arr) ==
    IF Len(arr) = 0 THEN [undefined |-> TRUE]
    ELSE [undefined |-> FALSE, v |-> arr[1]]

\* a slip: subsets().chord() passes "sup"
searchFilter_subsetsChordSup(method, accessor) ==
    CASE method = "exact"     -> "exact"
      [] method = "supersets" -> "sup"
      [] method = "subsets"   -> IF accessor = "chord" THEN "sup" ELSE "sub"

\* the filter literal the accessor of search(...).<method>() passes to searcher
searchFilter(method, accessor) ==
    CASE method = "exact"     -> "exact"
      [] method = "supersets" -> "sup"
      [] method = "subsets"   -> "sub"

\* what search(arr, enh).<method>().<accessor>() returns, given the index
search(idx, arr, enh, method, accessor) ==
    LET type  == IF accessor \in {"chord", "chords"} THEN "chords" ELSE "scales"
        names == searcher(idx, type, arr, searchFilter(method, accessor), enh)
    IN  IF accessor \in {"chord", "scale"} THEN at0(names)
        ELSE [undefined |-> FALSE, v |-> names]

----------------------------------------------------------------------------
(* NoteList *)

NoteList_isMixed(notes) ==
    /\ Len(notes) > 0
    /\ \E k \in DOMAIN notes : Note_isPitch(notes[k]) # Note_isPitch(notes[1])

\* new NoteList(notes) for Note objects; intervals is undefined for a mixed list
NoteList(notes) ==
    [thrown    |-> FALSE,
     notes     |-> notes,
     intervals |->
        IF Len(notes) = 0 THEN [undefined |-> FALSE, v |-> <<>>]
        ELSE IF NoteList_isMixed(notes) THEN [undefined |-> TRUE]
        ELSE [undefined |-> FALSE,
              v |-> [k \in DOMAIN notes |-> Note_intervalTo(notes[1], notes[k])]]]

\* NoteList.fromIntervals(root, intervals) for a Note and notation strings
NoteList_fromIntervals(rootNote, arr) ==
    LET intervalObjects == [k \in DOMAIN arr |-> Interval_fromString(arr[k])]
    IN  IF \E k \in DOMAIN arr : intervalObjects[k].thrown THEN Thrown
        ELSE NoteList([k \in DOMAIN arr |-> Note_transpose(rootNote, intervalObjects[k])])

\* NoteList.fromScale / NoteList.fromChord for a tonic notation
fromCatalog(db, aliases, tonicStr, key) ==
    LET rootNote == Note_fromString(tonicStr)
    IN  IF hasKey(db, key)
        THEN IF rootNote.thrown THEN Thrown
             ELSE NoteList_fromIntervals(rootNote, entry(db, key))
        ELSE IF hasKey(aliases, key)
        THEN IF rootNote.thrown THEN Thrown
             ELSE NoteList_fromIntervals(rootNote, entry(db, entry(aliases, key)))
        ELSE Thrown

NoteList_fromScale(tonicStr, key) == fromCatalog(SCALES, SCALE_ALIAS, tonicStr, key)

NoteList_fromChord(tonicStr, key) == fromCatalog(CHORDS, CHORD_ALIAS, tonicStr, key)

\* scale(notation) / chord(notation) once the pattern has split the notation
\* into its tonic (empty when absent) and its name: tonic || "C"
scale(tonicStr, key) ==
    NoteList_fromScale(IF Len(tonicStr) = 0 THEN <<"C">> ELSE tonicStr, key)

chord(tonicStr, key) ==
    NoteList_fromChord(IF Len(tonicStr) = 0 THEN <<"C">> ELSE tonicStr, key)

\* a slip: a mixed list searches like the empty list
NoteList_search_mixedAsEmpty(list, enh) ==
    IF list.intervals.undefined THEN Ok(<<>>)
    ELSE LET objs == IF enh
                     THEN [k \in DOMAIN list.intervals.v |->
                              Interval_simplify(list.intervals.v[k])]
                     ELSE list.intervals.v
         IN  Ok([k \in DOMAIN objs |-> Interval_toString(objs[k])])

\* the interval notations notelist.search(enh) hands to search(), or Thrown
NoteList_search(list, enh) ==
    IF list.intervals.undefined THEN Thrown
    ELSE LET objs == IF enh
                     THEN [k \in DOMAIN list.intervals.v |->
                              Interval_simplify(list.intervals.v[k])]
                     ELSE list.intervals.v
         IN  Ok([k \in DOMAIN objs |-> Interval_toString(objs[k])])

\* notelist.exact / supersets / subsets (enh): the notations and the filter
\* the pattern result will search with, or Thrown
NoteList_filter(list, enh, filter) ==
    LET s == NoteList_search(list, enh)
    IN  IF s.thrown THEN Thrown
        ELSE [thrown |-> FALSE, v |-> s.v, filter |-> filter]

----------------------------------------------------------------------------
(* Operands *)

Accidentals ==
    {repeat("#", k) : k \in 0..MaxAcc} \cup {repeat("b", k) : k \in 1..MaxAcc}

Octaves == {NaN} \cup {Num(o) : o \in (-1)..MaxOctave}

Notes ==
    {Note(NOTE_LETTERS[l], a, o) : l \in 1..7, a \in Accidentals, o \in Octaves}

Qualities ==
    {<<"P">>, <<"M">>, <<"m">>}
        \cup {repeat("A", k) : k \in 1..MaxQuality}
        \cup {repeat("d", k) : k \in 1..MaxQuality}

Intervals ==
    {Interval(t[1], t[2], t[3]) :
        t \in {x \in Qualities \X (1..MaxNumber) \X {"+", "-"} :
                  validateInterval(x[1], x[2], x[3])}}

NoNote == Note("C", <<>>, NaN)

NoInterval == Interval(<<"P">>, 1, "+")

----------------------------------------------------------------------------
(* Transposition: a note and an interval are drawn, one operation is applied *)

InitTranspose ==
    /\ pc = "init"
    /\ n1 \in Notes
    /\ n2 = NoNote
    /\ iv \in Intervals
    /\ out = Thrown
    /\ index = emptyIndex
    /\ intervals = <<>>
    /\ enharmonic = TRUE
    /\ tonic = <<>>
    /\ name = ""
    /\ nl = <<>>
    /\ sgn = "+"
    /\ num = 0
    /\ num2 = 0
    /\ iv2 = NoInterval
    /\ str = <<>>

\* n1.transpose(iv)
Transpose ==
    /\ pc = "init"
    /\ pc' = "transpose"
    /\ out' = Note_transpose(n1, iv)
    /\ UNCHANGED <<n1, n2, iv, index, intervals, enharmonic, tonic, name, nl, sgn, num, num2,
                 iv2, str>>

\* n1.transpose(k) for a number of semitones k
TransposeSemitones ==
    /\ pc = "init"
    /\ iv = NoInterval
    /\ \E k \in (-MaxSemitones)..MaxSemitones :
          /\ iv' = Interval_fromSemitones(k)
          /\ out' = Note_transposeSemitones(n1, k)
    /\ pc' = "transpose"
    /\ UNCHANGED <<n1, n2, index, intervals, enharmonic, tonic, name, nl, sgn, num, num2,
                 iv2, str>>

\* n1.transpose(iv).transpose(iv.invert())
TransposeInvert ==
    /\ pc = "init"
    /\ pc' = "transposeInvert"
    /\ out' = Note_transpose(Note_transpose(n1, iv), Interval_invert(iv))
    /\ UNCHANGED <<n1, n2, iv, index, intervals, enharmonic, tonic, name, nl, sgn, num, num2,
                 iv2, str>>

\* n1.simplify()
SimplifyOperand ==
    /\ pc = "init"
    /\ pc' = "simplify"
    /\ out' = Note_simplify(n1)
    /\ UNCHANGED <<n1, n2, iv, index, intervals, enharmonic, tonic, name, nl,
                   sgn, num, num2, iv2, str>>

\* the second operands of a sum: the perfect, major and diminished unisons,
\* seconds and octaves, ascending and descending
Addends ==
    {b \in Intervals :
        b.number \in {1, 2, 8} /\ b.quality \in {<<"P">>, <<"M">>, <<"d">>}}

\* n1.transpose(iv).transpose(b), n1.transpose(b).transpose(iv) and
\* n1.transpose(iv.add(b))
TransposeAdd ==
    /\ pc = "init"
    /\ \E b \in Addends :
          /\ iv2' = b
          /\ out' = [thrown  |-> FALSE,
                     sum     |-> Interval_add(iv, b),
                     twice   |-> Note_transpose(Note_transpose(n1, iv), b),
                     swapped |-> Note_transpose(Note_transpose(n1, b), iv),
                     once    |-> IF Interval_add(iv, b).thrown THEN Thrown
                                 ELSE Note_transpose(n1, Interval_add(iv, b))]
    /\ pc' = "transposeAdd"
    /\ UNCHANGED <<n1, n2, iv, index, intervals, enharmonic, tonic, name, nl,
                   sgn, num, num2, str>>

NextTranspose ==
    \/ Transpose
    \/ TransposeSemitones
    \/ TransposeInvert
    \/ SimplifyOperand
    \/ TransposeAdd

SpecTranspose == InitTranspose /\ [][NextTranspose]_vars

\* C1: transposing a pitch is exact: the letter and octave move by the
\* interval's diatonic steps, the chromatic position by its chromatic steps,
\* and the distance from the note to its transposition is the interval's
\* chromatic steps
C1_TransposeExact ==
    (pc = "transpose" /\ Note_isPitch(n1)) =>
        /\ ~out.thrown
        /\ Note_isPitch(out)
        /\ 7 * out.octave.v + out.diatonicOffset
             = 7 * n1.octave.v + n1.diatonicOffset + iv.diatonicSteps
        /\ 12 * out.octave.v + out.chromaticOffset
             = 12 * n1.octave.v + n1.chromaticOffset + iv.chromaticSteps
        /\ Note_distance(n1, out) = Ok(iv.chromaticSteps)

\* a pitch transposed into another octave, needing more flats than any operand
C1_Witness ==
    /\ pc = "transpose"
    /\ Note_isPitch(n1)
    /\ out.octave # n1.octave
    /\ Len(out.accidentals) > MaxAcc
    /\ out.accidentals[1] = "b"

\* C2: transposing by an interval and then by its inversion returns to the
\* same letter and accidentals; a pitch moves by the whole number of octaves
\* the two intervals span together, a pitch class stays a pitch class
C2_TransposeInverse ==
    pc = "transposeInvert" =>
        /\ ~out.thrown
        /\ out.letter = n1.letter
        /\ out.accidentals = n1.accidentals
        /\ Note_isPitch(out) = Note_isPitch(n1)
        /\ Note_isPitch(n1) =>
              7 * (out.octave.v - n1.octave.v)
                 = iv.diatonicSteps + Interval_invert(iv).diatonicSteps

\* a descending compound interval applied to a pitch with accidentals
C2_Witness ==
    /\ pc = "transposeInvert"
    /\ Note_isPitch(n1)
    /\ Len(n1.accidentals) > 0
    /\ iv.sign = -1
    /\ iv.number > 8
    /\ out.octave.v = n1.octave.v - 2

----------------------------------------------------------------------------
(* Note pairs: two notes are drawn, one operation is applied *)

InitPair ==
    /\ pc = "init"
    /\ n1 \in Notes
    /\ n2 \in Notes
    /\ iv = NoInterval
    /\ out = Thrown
    /\ index = emptyIndex
    /\ intervals = <<>>
    /\ enharmonic = TRUE
    /\ tonic = <<>>
    /\ name = ""
    /\ nl = <<>>
    /\ sgn = "+"
    /\ num = 0
    /\ num2 = 0
    /\ iv2 = NoInterval
    /\ str = <<>>

\* n1.distance(n2)
Distance ==
    /\ pc = "init"
    /\ pc' = "distance"
    /\ out' = Note_distance(n1, n2)
    /\ UNCHANGED <<n1, n2, iv, index, intervals, enharmonic, tonic, name, nl, sgn, num, num2,
                 iv2, str>>

\* n1.intervalTo(n2)
IntervalTo ==
    /\ pc = "init"
    /\ pc' = "intervalTo"
    /\ out' = Note_intervalTo(n1, n2)
    /\ UNCHANGED <<n1, n2, iv, index, intervals, enharmonic, tonic, name, nl, sgn, num, num2,
                 iv2, str>>

\* n1.transpose(n1.intervalTo(n2))
TransposeIntervalTo ==
    /\ pc = "init"
    /\ pc' = "transposeIntervalTo"
    /\ LET i == Note_intervalTo(n1, n2)
       IN  out' = IF i.thrown THEN Thrown ELSE Note_transpose(n1, i)
    /\ UNCHANGED <<n1, n2, iv, index, intervals, enharmonic, tonic, name, nl, sgn, num, num2,
                 iv2, str>>

\* n1.isEnharmonic(n2)
IsEnharmonic ==
    /\ pc = "init"
    /\ pc' = "isEnharmonic"
    /\ out' = Ok(Note_isEnharmonic(n1, n2))
    /\ UNCHANGED <<n1, n2, iv, index, intervals, enharmonic, tonic, name, nl, sgn, num, num2,
                 iv2, str>>

\* n1.intervalFrom(n2)
IntervalFrom ==
    /\ pc = "init"
    /\ pc' = "intervalFrom"
    /\ out' = Note_intervalFrom(n1, n2)
    /\ UNCHANGED <<n1, n2, iv, index, intervals, enharmonic, tonic, name, nl, sgn,
                 num, num2, iv2, str>>

\* Note.octaveDiff(n1, n2)
OctaveDiff ==
    /\ pc = "init"
    /\ pc' = "octaveDiff"
    /\ out' = Note_octaveDiff(n1, n2)
    /\ UNCHANGED <<n1, n2, iv, index, intervals, enharmonic, tonic, name, nl, sgn,
                 num, num2, iv2, str>>

\* n1.isEqual(n2)
IsEqual ==
    /\ pc = "init"
    /\ pc' = "isEqual"
    /\ out' = Ok(Note_isEqual(n1, n2))
    /\ UNCHANGED <<n1, n2, iv, index, intervals, enharmonic, tonic, name, nl, sgn,
                 num, num2, iv2, str>>

\* Note.compare(n1, n2)
Compare ==
    /\ pc = "init"
    /\ pc' = "compare"
    /\ out' = Note_compare(n1, n2)
    /\ UNCHANGED <<n1, n2, iv, index, intervals, enharmonic, tonic, name, nl, sgn,
                 num, num2, iv2, str>>

NextPair ==
    \/ Distance
    \/ IntervalTo
    \/ TransposeIntervalTo
    \/ IsEnharmonic
    \/ IntervalFrom
    \/ OctaveDiff
    \/ IsEqual
    \/ Compare

SpecPair == InitPair /\ [][NextPair]_vars

sameKind(a, b) == Note_isPitch(a) = Note_isPitch(b)

\* C3: for two notes of the same kind intervalTo succeeds and its chromatic
\* steps are the distance between the notes
C3_IntervalDistance ==
    (pc = "intervalTo" /\ sameKind(n1, n2)) =>
        /\ ~out.thrown
        /\ Note_distance(n1, n2) = Ok(out.chromaticSteps)

\* a descending compound interval between two pitches, and an interval
\* between pitch classes that wraps into the next octave
C3_Witness ==
    /\ pc = "intervalTo"
    /\ \/ /\ Note_isPitch(n1) /\ Note_isPitch(n2)
          /\ out.sign = -1 /\ out.number > 8 /\ Len(out.quality) = 2
       \/ /\ Note_isPitchClass(n1) /\ Note_isPitchClass(n2)
          /\ n1.chromaticOffset > n2.chromaticOffset /\ out.number = 8

\* C4: transposing a note by its interval to a note of the same kind gives
\* that note: same letter, accidentals and octave
C4_IntervalToReversesTranspose ==
    (pc = "transposeIntervalTo" /\ sameKind(n1, n2)) =>
        /\ ~out.thrown
        /\ Note_isEqual(out, n2)
        /\ out.letter = n2.letter
        /\ out.accidentals = n2.accidentals
        /\ out.octave = n2.octave

\* two different pitches, the second lower and in another octave
C4_Witness ==
    /\ pc = "transposeIntervalTo"
    /\ Note_isPitch(n1) /\ Note_isPitch(n2)
    /\ n2.octave.v < n1.octave.v
    /\ n2.letter # n1.letter
    /\ Len(n2.accidentals) = MaxAcc
    /\ out = n2

\* C9: isEnharmonic is symmetric
C9_EnharmonicSymmetric ==
    pc = "isEnharmonic" => out.v = Note_isEnharmonic(n2, n1)

\* C10: the distance between two pitch classes is never negative
C10_PitchClassDistanceNonNegative ==
    (pc = "distance" /\ Note_isPitchClass(n1) /\ Note_isPitchClass(n2)) =>
        /\ ~out.thrown
        /\ out.v >= 0

----------------------------------------------------------------------------
(* Search: search(intervals, enharmonic) is called with a needle, and the    *)
(* filters of its result are called in any order; the index fills lazily     *)

\* the notations of the bit tables
Notations == DOMAIN INTERVAL_BITMASK

\* notations no bit table holds
UnknownNotations == {lit["X"], lit["P15"], lit["A13"], lit["-M3"]}

CatalogEntries ==
    {CHORDS[k][2] : k \in DOMAIN CHORDS} \cup {SCALES[k][2] : k \in DOMAIN SCALES}

\* the empty needle, single notations, the catalog entries, the triads with
\* one notation added, and the chords with their last notation replaced
Needles ==
    {<<>>}
        \cup {<<x>> : x \in Notations \cup UnknownNotations}
        \cup CatalogEntries
        \cup {Append(TRIADS[k][2], x) :
                 k \in DOMAIN TRIADS, x \in Notations \cup UnknownNotations}
        \cup {[CHORDS[k][2] EXCEPT ![Len(CHORDS[k][2])] = x] :
                 k \in DOMAIN CHORDS, x \in Notations \cup UnknownNotations}

InitSearch ==
    /\ pc = "init"
    /\ n1 = NoNote
    /\ n2 = NoNote
    /\ iv = NoInterval
    /\ out = Thrown
    /\ index = emptyIndex
    /\ intervals \in Needles
    /\ enharmonic \in BOOLEAN
    /\ tonic = <<>>
    /\ name = ""
    /\ nl = <<>>
    /\ sgn = "+"
    /\ num = 0
    /\ num2 = 0
    /\ iv2 = NoInterval
    /\ str = <<>>

\* what search(intervals, enharmonic).<filter>().chords() / .scales() returns
searchResult(filter, type) ==
    [thrown |-> FALSE, filter |-> filter, type |-> type,
     names  |-> searcher(index, type, intervals, filter, enharmonic)]

\* search(intervals, enharmonic).exact().chords() / .scales()
SearchExact ==
    /\ \E type \in {"chords", "scales"} :
          /\ index' = loadIndex(index, type, enharmonic)
          /\ out' = searchResult("exact", type)
    /\ pc' = "search"
    /\ UNCHANGED <<n1, n2, iv, intervals, enharmonic, tonic, name, nl, sgn, num, num2,
                 iv2, str>>

\* search(intervals, enharmonic).supersets().chords() / .scales()
SearchSupersets ==
    /\ \E type \in {"chords", "scales"} :
          /\ index' = loadIndex(index, type, enharmonic)
          /\ out' = searchResult("sup", type)
    /\ pc' = "search"
    /\ UNCHANGED <<n1, n2, iv, intervals, enharmonic, tonic, name, nl, sgn, num, num2,
                 iv2, str>>

\* search(intervals, enharmonic).subsets().chords() / .scales()
SearchSubsets ==
    /\ \E type \in {"chords", "scales"} :
          /\ index' = loadIndex(index, type, enharmonic)
          /\ out' = searchResult("sub", type)
    /\ pc' = "search"
    /\ UNCHANGED <<n1, n2, iv, intervals, enharmonic, tonic, name, nl, sgn, num, num2,
                 iv2, str>>

NextSearch == SearchExact \/ SearchSupersets \/ SearchSubsets

SpecSearch == InitSearch /\ [][NextSearch]_vars

catalog(type) == IF type = "chords" THEN CHORDS ELSE SCALES

known(arr) == \A k \in DOMAIN arr : arr[k] \in Notations

\* the semitone count of every table notation, from the Interval class
chromaticStepsOf ==
    [x \in Notations |-> Interval_fromString(x).chromaticSteps]

semitones(arr) == {chromaticStepsOf[arr[k]] : k \in DOMAIN arr}

notations(arr) == {arr[k] : k \in DOMAIN arr}

\* the relation a filter asks for between the needle's set and an entry's set
related(filter, needleSet, entrySet) ==
    CASE filter = "exact" -> entrySet = needleSet
      [] filter = "sub"   -> entrySet \subseteq needleSet
      [] filter = "sup"   -> needleSet \subseteq entrySet

\* the catalog's names, in catalog order, whose entry is related to the needle
namesBySemitones(type, filter, arr) ==
    SelectSeq(keys(catalog(type)),
              LAMBDA nm : related(filter, semitones(arr),
                                  semitones(entry(catalog(type), nm))))

namesByNotations(type, filter, arr) ==
    SelectSeq(keys(catalog(type)),
              LAMBDA nm : related(filter, notations(arr),
                                  notations(entry(catalog(type), nm))))

\* C5: in enharmonic mode, for a needle of table notations, exact() returns
\* exactly the catalog names whose set of semitone counts equals the needle's,
\* subsets() those whose set is contained in the needle's and supersets()
\* those whose set contains the needle's, in catalog order
C5_EnharmonicSetSemantics ==
    (pc = "search" /\ enharmonic /\ known(intervals)) =>
        out.names = namesBySemitones(out.type, out.filter, intervals)

\* an exact match found through an enharmonic spelling: the needle's
\* notations are not the entry's
C5_Witness ==
    /\ pc = "search"
    /\ enharmonic
    /\ known(intervals)
    /\ out.filter = "exact"
    /\ out.names # <<>>
    /\ notations(entry(catalog(out.type), out.names[1])) # notations(intervals)

\* C6: in exact mode every table notation owns its own bit: for a needle of
\* table notations, exact() returns a name iff the entry's set of notations
\* equals the needle's, subsets() / supersets() iff it is contained in /
\* contains the needle's
C6_ExactSetSemantics ==
    (pc = "search" /\ ~enharmonic /\ known(intervals)) =>
        out.names = namesByNotations(out.type, out.filter, intervals)

----------------------------------------------------------------------------
(* Catalog: chord(notation) / scale(notation) builds a note list from a      *)
(* tonic and a catalog name, and the list is searched for                    *)

\* tonic notations: none (the default applies), a pitch class, or a pitch
Tonics ==
    {<<>>} \cup
    {<<NOTE_LETTERS[l]>> \o a \o o :
        l \in 1..7,
        a \in {repeat("#", k) : k \in 0..MaxTonicAcc}
                 \cup {repeat("b", k) : k \in 1..MaxTonicAcc},
        o \in {<<>>} \cup {intToString(k) : k \in (-1)..MaxOctave}}

CatalogNames ==
    {CHORDS[k][1] : k \in DOMAIN CHORDS} \cup {SCALES[k][1] : k \in DOMAIN SCALES}

InitCatalog ==
    /\ pc = "init"
    /\ n1 = NoNote
    /\ n2 = NoNote
    /\ iv = NoInterval
    /\ out = Thrown
    /\ index = emptyIndex
    /\ intervals = <<>>
    /\ enharmonic = TRUE
    /\ tonic \in Tonics
    /\ name \in CatalogNames
    /\ nl = <<>>
    /\ sgn = "+"
    /\ num = 0
    /\ num2 = 0
    /\ iv2 = NoInterval
    /\ str = <<>>

\* list.<filter>().chords() / .scales() for the list chord / scale built:
\* the notations handed to search() are kept in intervals
CatalogSearch(list, type, filter, label) ==
    /\ pc = "init"
    /\ pc' = label
    /\ IF list.thrown
       THEN out' = Thrown /\ UNCHANGED <<index, intervals>>
       ELSE LET arr == NoteList_search(list, enharmonic)
            IN  IF arr.thrown
                THEN out' = Thrown /\ UNCHANGED <<index, intervals>>
                ELSE /\ intervals' = arr.v
                     /\ index' = loadIndex(index, type, enharmonic)
                     /\ out' = [thrown |-> FALSE, filter |-> filter, type |-> type,
                                names |-> searcher(index, type, arr.v,
                                                   filter, enharmonic)]
    /\ UNCHANGED <<n1, n2, iv, enharmonic, tonic, name, nl, sgn, num, num2,
                 iv2, str>>

\* chord(tonic + " " + name).exact().chords()
ChordExact == CatalogSearch(chord(tonic, name), "chords", "exact", "chordExact")

\* chord(tonic + " " + name).supersets().chords()
ChordSupersets == CatalogSearch(chord(tonic, name), "chords", "sup", "chordSupersets")

\* scale(tonic + " " + name).exact().scales()
ScaleExact == CatalogSearch(scale(tonic, name), "scales", "exact", "scaleExact")

\* scale(tonic + " " + name).supersets().scales()
ScaleSupersets == CatalogSearch(scale(tonic, name), "scales", "sup", "scaleSupersets")

NextCatalog == ChordExact \/ ChordSupersets \/ ScaleExact \/ ScaleSupersets

SpecCatalog == InitCatalog /\ [][NextCatalog]_vars

\* C8: the note list built for a catalog name and any tonic finds itself:
\* exact() and supersets() on the same catalog both contain the name
C8_CatalogRoundTrip ==
    /\ (pc \in {"chordExact", "chordSupersets"} /\ hasKey(CHORDS, name)) =>
          /\ ~out.thrown
          /\ \E k \in DOMAIN out.names : out.names[k] = name
    /\ (pc \in {"scaleExact", "scaleSupersets"} /\ hasKey(SCALES, name)) =>
          /\ ~out.thrown
          /\ \E k \in DOMAIN out.names : out.names[k] = name

----------------------------------------------------------------------------
(* Notes: simplification, MIDI numbers and scientific pitch notation.
   Each call draws its own argument. *)

\* every MIDI number, and the first integer outside the range on either side
MidiNumbers == (0 - 1)..128

OctaveNotations ==
    {<<>>} \cup {<<DigitChars[d]>> : d \in 1..10}
           \cup {<<"-", DigitChars[d]>> : d \in 1..10}

\* LETTER, a run of '#' or of 'b', an optional octave
NoteNotations ==
    {<<NOTE_LETTERS[l]>> \o a \o o :
        l \in 1..7, a \in Accidentals, o \in OctaveNotations}

InitNote ==
    /\ pc = "init"
    /\ n1 = NoNote
    /\ n2 = NoNote
    /\ iv = NoInterval
    /\ out = Thrown
    /\ index = emptyIndex
    /\ intervals = <<>>
    /\ enharmonic = TRUE
    /\ tonic = <<>>
    /\ name = ""
    /\ nl = <<>>
    /\ sgn = "+"
    /\ num = 0
    /\ num2 = 0
    /\ iv2 = NoInterval
    /\ str = <<>>

\* n.simplify()
Simplify ==
    /\ pc = "init"
    /\ \E n \in Notes :
          /\ n1' = n
          /\ out' = Note_simplify(n)
    /\ pc' = "simplify"
    /\ UNCHANGED <<n2, iv, index, intervals, enharmonic, tonic, name, nl, sgn, num, num2,
                 iv2, str>>

\* Note.fromMidi(m)
FromMidi ==
    /\ pc = "init"
    /\ \E m \in MidiNumbers :
          /\ num' = m
          /\ out' = Note_fromMidi(m)
    /\ pc' = "fromMidi"
    /\ UNCHANGED <<n1, n2, iv, index, intervals, enharmonic, tonic, name, nl, sgn, num2,
                 iv2, str>>

\* .midi() on the note fromMidi returned
Midi ==
    /\ pc = "fromMidi"
    /\ ~out.thrown
    /\ n1' = out
    /\ out' = Note_midi(out)
    /\ pc' = "midi"
    /\ UNCHANGED <<n2, iv, index, intervals, enharmonic, tonic, name, nl, sgn, num, num2,
                 iv2, str>>

\* Note.fromString(s)
NoteFromString ==
    /\ pc = "init"
    /\ \E s \in NoteNotations :
          /\ str' = s
          /\ out' = Note_fromString(s)
    /\ pc' = "fromString"
    /\ UNCHANGED <<n1, n2, iv, index, intervals, enharmonic, tonic, name, nl, sgn, num,
                 num2, iv2>>

\* .toString() on the note fromString returned
NoteToString ==
    /\ pc = "fromString"
    /\ ~out.thrown
    /\ n1' = out
    /\ out' = Note_toString(out)
    /\ pc' = "toString"
    /\ UNCHANGED <<n2, iv, index, intervals, enharmonic, tonic, name, nl, sgn, num, num2,
                 iv2, str>>

NextNote == Simplify \/ FromMidi \/ Midi \/ NoteFromString \/ NoteToString

SpecNote == InitNote /\ [][NextNote]_vars

\* C11: a note is enharmonic to its simplification, which carries no
\* accidental or a single sharp
C11_SimplifyEnharmonic ==
    pc = "simplify" =>
        /\ ~out.thrown
        /\ Note_isEnharmonic(n1, out)
        /\ out.accidentals \in {<<>>, <<"#">>}

\* C12: every MIDI number from 0 to 127 converts to a note whose MIDI
\* number is the one given
C12_MidiReversible ==
    /\ (pc = "fromMidi" /\ num >= 0 /\ num <= 127) => ~out.thrown
    /\ (pc = "midi" /\ num >= 0 /\ num <= 127) =>
          /\ ~out.thrown
          /\ out.v = Num(num)

\* C13: a note notation parses and prints back unchanged; it parses to a
\* pitch when it carries an octave and to a pitch class when it does not
C13_NotationRoundTrip ==
    /\ pc = "fromString" =>
          /\ ~out.thrown
          /\ Note_isPitch(out) = (Len(str) > 1 /\ isDigit(str[Len(str)]))
    /\ pc = "toString" => out = str

----------------------------------------------------------------------------
(* Intervals: notation, construction from step counts, arithmetic,
   inversion and simple terms. Each call draws its own arguments. *)

\* optional direction, quality, number without leading zeros
IntervalNotations ==
    {d \o q \o natToString(k) :
        d \in {<<>>, <<"+">>, <<"-">>}, q \in Qualities, k \in 0..MaxNumber}

\* quality strings: every string of at most MaxQuality characters over the
\* quality letters and a foreign one
QualityStrings ==
    UNION {[1..k -> {"P", "M", "m", "A", "d", "x"}] : k \in 0..MaxQuality}

InitInterval ==
    /\ pc = "init"
    /\ n1 = NoNote
    /\ n2 = NoNote
    /\ iv = NoInterval
    /\ out = Thrown
    /\ index = emptyIndex
    /\ intervals = <<>>
    /\ enharmonic = TRUE
    /\ tonic = <<>>
    /\ name = ""
    /\ nl = <<>>
    /\ sgn = "+"
    /\ num = 0
    /\ num2 = 0
    /\ iv2 = NoInterval
    /\ str = <<>>

\* Interval.fromString(s)
IntervalFromString ==
    /\ pc = "init"
    /\ \E s \in IntervalNotations :
          /\ str' = s
          /\ out' = Interval_fromString(s)
    /\ pc' = "Interval.fromString"
    /\ UNCHANGED <<n1, n2, iv, index, intervals, enharmonic, tonic, name, nl, sgn, num,
                 num2, iv2>>

\* .toString() on the interval fromString returned
IntervalToString ==
    /\ pc = "Interval.fromString"
    /\ ~out.thrown
    /\ iv' = out
    /\ out' = Interval_toString(out)
    /\ pc' = "Interval.toString"
    /\ UNCHANGED <<n1, n2, index, intervals, enharmonic, tonic, name, nl, sgn, num, num2,
                 iv2, str>>

\* Interval.fromSemitones(k)
FromSemitones ==
    /\ pc = "init"
    /\ \E k \in (-MaxSpan)..MaxSpan :
          /\ num' = k
          /\ out' = Interval_fromSemitones(k)
    /\ pc' = "Interval.fromSemitones"
    /\ UNCHANGED <<n1, n2, iv, index, intervals, enharmonic, tonic, name, nl, sgn, num2,
                 iv2, str>>

\* i.simplify()
IntervalSimplify ==
    /\ pc = "init"
    /\ \E i \in Intervals :
          /\ iv' = i
          /\ out' = Interval_simplify(i)
    /\ pc' = "Interval.simplify"
    /\ UNCHANGED <<n1, n2, index, intervals, enharmonic, tonic, name, nl, sgn, num, num2,
                 iv2, str>>

\* Interval.fromSteps(d, c)
FromSteps ==
    /\ pc = "init"
    /\ \E d \in (1 - MaxNumber)..(MaxNumber - 1), c \in (-MaxSpan)..MaxSpan :
          /\ num' = d
          /\ num2' = c
          /\ out' = Interval_fromSteps(d, c)
    /\ pc' = "Interval.fromSteps"
    /\ UNCHANGED <<n1, n2, iv, index, intervals, enharmonic, tonic, name, nl, sgn, iv2,
                 str>>

\* a.add(b)
Add ==
    /\ pc = "init"
    /\ \E a \in Intervals, b \in Intervals :
          /\ iv' = a
          /\ iv2' = b
          /\ out' = Interval_add(a, b)
    /\ pc' = "Interval.add"
    /\ UNCHANGED <<n1, n2, index, intervals, enharmonic, tonic, name, nl, sgn, num, num2,
                 str>>

\* a.sub(b)
Sub ==
    /\ pc = "init"
    /\ \E a \in Intervals, b \in Intervals :
          /\ iv' = a
          /\ iv2' = b
          /\ out' = Interval_sub(a, b)
    /\ pc' = "Interval.sub"
    /\ UNCHANGED <<n1, n2, index, intervals, enharmonic, tonic, name, nl, sgn, num, num2,
                 str>>

\* i.invert()
Invert ==
    /\ pc = "init"
    /\ \E i \in Intervals :
          /\ iv' = i
          /\ out' = Interval_invert(i)
    /\ pc' = "Interval.invert"
    /\ UNCHANGED <<n1, n2, index, intervals, enharmonic, tonic, name, nl, sgn, num, num2,
                 iv2, str>>

\* i.simpleTerm()
SimpleTerm ==
    /\ pc = "init"
    /\ \E i \in Intervals :
          /\ iv' = i
          /\ out' = Interval_simpleTerm(i)
    /\ pc' = "Interval.simpleTerm"
    /\ UNCHANGED <<n1, n2, index, intervals, enharmonic, tonic, name, nl, sgn, num, num2,
                 iv2, str>>

\* new Interval(quality, number, sign)
Construct ==
    /\ pc = "init"
    /\ \E q \in QualityStrings, k \in (-1)..MaxNumber, s \in {"+", "-", "/"} :
          /\ str' = q
          /\ num' = k
          /\ sgn' = s
          /\ out' = Interval(q, k, s)
    /\ pc' = "Interval.new"
    /\ UNCHANGED <<n1, n2, iv, index, intervals, enharmonic, tonic, name, nl,
                 num2, iv2>>

NextInterval ==
    \/ Construct
    \/ IntervalFromString
    \/ IntervalToString
    \/ FromSemitones
    \/ IntervalSimplify
    \/ FromSteps
    \/ Add
    \/ Sub
    \/ Invert
    \/ SimpleTerm

SpecInterval == InitInterval /\ [][NextInterval]_vars

\* C14: an accepted interval notation prints back as itself without its
\* leading '+'; a leading '-', the quality and the number are unchanged
C14_IntervalNotationRoundTrip ==
    pc = "Interval.toString" =>
        out = (IF str[1] = "+" THEN Tail(str) ELSE str)

C14_Witness ==
    /\ pc = "Interval.toString"
    /\ str[1] = "+"
    /\ Len(iv.quality) > 1
    /\ iv.number >= 10

\* C15: fromSemitones(n) succeeds for every integer n, spans exactly n
\* semitones and has quality P, M, m or A, with A only when |n| mod 12 is 6;
\* so every interval is enharmonic to its simplification
C15_FromSemitonesCanonical ==
    /\ pc = "Interval.fromSemitones" =>
          /\ ~out.thrown
          /\ out.chromaticSteps = num
          /\ out.quality \in {<<"P">>, <<"M">>, <<"m">>, <<"A">>}
          /\ out.quality = <<"A">> => abs(num) % 12 = 6
    /\ pc = "Interval.simplify" =>
          /\ ~out.thrown
          /\ Interval_isEnharmonic(out, iv)

C15_Witness ==
    /\ pc = "Interval.fromSemitones"
    /\ num < -12
    /\ out.quality = <<"A">>
    /\ out.number > 8

\* the valid intervals whose step counts are the pair given to fromSteps
stepsOf(d, c) ==
    {i \in Intervals : i.diatonicSteps = d /\ i.chromaticSteps = c}

C17_AddSubStepwise ==
    /\ (pc = "Interval.add" /\ ~out.thrown) =>
          /\ out.diatonicSteps = iv.diatonicSteps + iv2.diatonicSteps
          /\ out.chromaticSteps = iv.chromaticSteps + iv2.chromaticSteps
    /\ (pc = "Interval.sub" /\ ~out.thrown) =>
          /\ out.diatonicSteps = iv.diatonicSteps - iv2.diatonicSteps
          /\ out.chromaticSteps = iv.chromaticSteps - iv2.chromaticSteps

C17_Witness ==
    /\ pc = "Interval.sub"
    /\ ~out.thrown
    /\ iv.sign = 1
    /\ iv2.sign = 1
    /\ out.sign = -1
    /\ out.number >= 8

C20_SimpleTerm ==
    pc = "Interval.simpleTerm" =>
        /\ ~out.thrown
        /\ out.quality = iv.quality
        /\ out.sign = iv.sign
        /\ out.number = (abs(iv.diatonicSteps) % 7) + 1
        /\ out.number \in 1..7
        /\ ~Interval_isCompound(out)
        /\ iv.chromaticSteps - out.chromaticSteps
              = iv.sign * 12 * ((iv.number - 1) \div 7)
        /\ Interval_simpleTerm(out) = out

C20_Witness ==
    /\ pc = "Interval.simpleTerm"
    /\ iv.number = 15
    /\ iv.sign = -1
    /\ out.number = 1
    /\ out.chromaticSteps = iv.chromaticSteps + 24

\* the qualities C21 names: P, M, m, a run of A, a run of d
isQuality(q) ==
    /\ Len(q) > 0
    /\ \/ q \in {<<"P">>, <<"M">>, <<"m">>}
       \/ \A k \in DOMAIN q : q[k] = "A"
       \/ \A k \in DOMAIN q : q[k] = "d"

\* C21: new Interval(quality, number, sign) returns an interval exactly
\* when the quality is P, M, m, a run of A or a run of d, the number is at
\* least 1, the sign is '+' or '-', and the quality fits the degree (no M
\* or m on degrees 1, 4, 5; no P on degrees 2, 3, 6, 7); otherwise it throws
C21_ConstructorAcceptsValidTriples ==
    pc = "Interval.new" =>
        (~out.thrown <=>
            /\ isQuality(str)
            /\ num >= 1
            /\ sgn \in {"+", "-"}
            /\ IF ((num - 1) % 7) + 1 \in {1, 4, 5}
               THEN str \notin {<<"M">>, <<"m">>}
               ELSE str # <<"P">>)

\* the sign of a number Note.compare returns
signOf(r) == IF r.inf # 0 THEN r.inf ELSE IF r.v < 0 THEN -1 ELSE IF r.v > 0 THEN 1 ELSE 0

\* the sign of the first non-zero difference of two key tuples
RECURSIVE lexSign(_, _, _)
lexSign(x, y, k) ==
    IF k > Len(x) THEN 0
    ELSE IF x[k] < y[k] THEN -1
    ELSE IF x[k] > y[k] THEN 1
    ELSE lexSign(x, y, k + 1)

\* C22: compare puts every pitch class before every pitch, orders two
\* pitches by octave, then chromatic offset, then diatonic offset, and is 0
\* only for two notes whose three keys coincide
C22_CompareTotalOrder ==
    pc = "compare" =>
        /\ (Note_isPitchClass(n1) /\ Note_isPitch(n2)) => signOf(out) < 0
        /\ (Note_isPitch(n1) /\ Note_isPitch(n2)) =>
              signOf(out) =
                  lexSign(<<n1.octave.v, n1.chromaticOffset, n1.diatonicOffset>>,
                          <<n2.octave.v, n2.chromaticOffset, n2.diatonicOffset>>, 1)
        /\ signOf(out) = 0 =>
              /\ n1.octave = n2.octave
              /\ n1.chromaticOffset = n2.chromaticOffset
              /\ n1.diatonicOffset = n2.diatonicOffset

\* C23: distance, intervalTo, intervalFrom and octaveDiff throw exactly for
\* a pitch and a pitch class; isEnharmonic and isEqual return false for
\* such a pair and do not throw
C23_MixedComparison ==
    /\ pc \in {"distance", "intervalTo", "intervalFrom", "octaveDiff"} =>
          (out.thrown <=> ~sameKind(n1, n2))
    /\ (pc \in {"isEnharmonic", "isEqual"} /\ ~sameKind(n1, n2)) =>
          /\ ~out.thrown
          /\ out.v = FALSE

C23_Witness ==
    /\ pc = "intervalFrom"
    /\ Note_isPitch(n1)
    /\ Note_isPitchClass(n2)
    /\ n1.letter = n2.letter
    /\ n1.accidentals = n2.accidentals
    /\ out.thrown

----------------------------------------------------------------------------
(* Note lists: a list of notes is built and searched *)

\* the notes of the lists: C and G, natural, sharp or flat, as pitch classes
\* and as pitches of every octave
ListNotes ==
    {n \in Notes : n.letter \in {"C", "G"} /\ Len(n.accidentals) <= 1}

NoteLists == UNION {[1..k -> ListNotes] : k \in 0..MaxListLen}

InitList ==
    /\ pc = "init"
    /\ n1 = NoNote
    /\ n2 = NoNote
    /\ iv = NoInterval
    /\ out = Thrown
    /\ index = emptyIndex
    /\ intervals = <<>>
    /\ enharmonic \in BOOLEAN
    /\ tonic = <<>>
    /\ name = ""
    /\ nl \in NoteLists
    /\ sgn = "+"
    /\ num = 0
    /\ num2 = 0
    /\ iv2 = NoInterval
    /\ str = <<>>

\* new NoteList(nl).search(enharmonic)
ListSearch ==
    /\ pc = "init"
    /\ pc' = "list.search"
    /\ out' = NoteList_search(NoteList(nl), enharmonic)
    /\ UNCHANGED <<n1, n2, iv, index, intervals, enharmonic, tonic, name, nl,
                 sgn, num, num2, iv2, str>>

\* new NoteList(nl).exact(enharmonic)
ListExact ==
    /\ pc = "init"
    /\ pc' = "list.exact"
    /\ out' = NoteList_filter(NoteList(nl), enharmonic, "exact")
    /\ UNCHANGED <<n1, n2, iv, index, intervals, enharmonic, tonic, name, nl,
                 sgn, num, num2, iv2, str>>

\* new NoteList(nl).supersets(enharmonic)
ListSupersets ==
    /\ pc = "init"
    /\ pc' = "list.supersets"
    /\ out' = NoteList_filter(NoteList(nl), enharmonic, "sup")
    /\ UNCHANGED <<n1, n2, iv, index, intervals, enharmonic, tonic, name, nl,
                 sgn, num, num2, iv2, str>>

\* new NoteList(nl).subsets(enharmonic)
ListSubsets ==
    /\ pc = "init"
    /\ pc' = "list.subsets"
    /\ out' = NoteList_filter(NoteList(nl), enharmonic, "sub")
    /\ UNCHANGED <<n1, n2, iv, index, intervals, enharmonic, tonic, name, nl,
                 sgn, num, num2, iv2, str>>

\* .chords() / .scales() on the pattern result a filter returned: the first
\* catalog lookup
ListLookup ==
    /\ pc \in {"list.exact", "list.supersets", "list.subsets"}
    /\ ~out.thrown
    /\ \E type \in {"chords", "scales"} :
          /\ index' = loadIndex(index, type, enharmonic)
          /\ out' = [thrown |-> FALSE, filter |-> out.filter, type |-> type,
                     names  |-> searcher(index, type, out.v, out.filter,
                                         enharmonic)]
    /\ intervals' = out.v
    /\ pc' = "list.lookup"
    /\ UNCHANGED <<n1, n2, iv, enharmonic, tonic, name, nl, sgn, num, num2, iv2,
                 str>>

NextList ==
    ListSearch \/ ListExact \/ ListSupersets \/ ListSubsets \/ ListLookup

SpecList == InitList /\ [][NextList]_vars

\* the list holds a pitch and a pitch class
holdsBothKinds(ns) ==
    \E j \in DOMAIN ns, k \in DOMAIN ns :
        Note_isPitch(ns[j]) /\ Note_isPitchClass(ns[k])

\* C24: search, exact, subsets and supersets throw for a list that holds a
\* pitch and a pitch class, with the index cache untouched, and do not
\* throw for any other list
C24_MixedListRefusesSearch ==
    pc \in {"list.search", "list.exact", "list.supersets", "list.subsets"} =>
        /\ out.thrown <=> holdsBothKinds(nl)
        /\ index = emptyIndex

\* a list whose last note is not of the kind of its first
C24_Witness ==
    /\ pc = "list.subsets"
    /\ Len(nl) = MaxListLen
    /\ Note_isPitch(nl[1])
    /\ Note_isPitchClass(nl[Len(nl)])
    /\ out.thrown
    /\ index = emptyIndex

----------------------------------------------------------------------------
(* Index: any sequence of searches, each with its own needle, mode, filter   *)
(* and accessor; the module-level index lives across the calls               *)

\* the empty needle, a lone root, a triad, the triad spelled enharmonically,
\* a four-note chord and the major scale
IndexNeedles ==
    {<<>>, <<lit["P1"]>>, TRIADS[1][2], lits(<<"P1", "d4", "P5">>),
     SIXTH[1][2], SCALES[1][2]}

Methods == {"exact", "supersets", "subsets"}

InitIndex ==
    /\ pc = "init"
    /\ n1 = NoNote
    /\ n2 = NoNote
    /\ iv = NoInterval
    /\ out = Thrown
    /\ index = emptyIndex
    /\ intervals = <<>>
    /\ enharmonic = TRUE
    /\ tonic = <<>>
    /\ name = ""
    /\ nl = <<>>
    /\ sgn = "+"
    /\ num = 0
    /\ num2 = 0
    /\ iv2 = NoInterval
    /\ str = <<>>

\* search(arr, enh).<method>().<accessor>(): the result, and the index
\* loadIndex leaves
Query(arr, enh, method, accessor) ==
    /\ index' = loadIndex(index,
                          IF accessor \in {"chord", "chords"}
                          THEN "chords" ELSE "scales", enh)
    /\ out' = [thrown |-> FALSE, method |-> method, accessor |-> accessor,
               res |-> search(index, arr, enh, method, accessor)]
    /\ intervals' = arr
    /\ enharmonic' = enh
    /\ UNCHANGED <<n1, n2, iv, tonic, name, nl, sgn, num, num2, iv2, str>>

\* search(arr, enh).<method>().chords() / .scales()
QueryAll ==
    /\ \E arr \in IndexNeedles, enh \in BOOLEAN, method \in Methods,
          accessor \in {"chords", "scales"} :
          Query(arr, enh, method, accessor)
    /\ pc' = "search.all"

\* search(arr, enh).<method>().chord() / .scale()
QueryFirst ==
    /\ \E arr \in IndexNeedles, enh \in BOOLEAN, method \in Methods,
          accessor \in {"chord", "scale"} :
          Query(arr, enh, method, accessor)
    /\ pc' = "search.first"

NextIndex == QueryAll \/ QueryFirst

SpecIndex == InitIndex /\ [][NextIndex]_vars

\* chords for chord, scales for scale
pluralOf(accessor) == IF accessor = "chord" THEN "chords" ELSE "scales"

\* C25: for each of exact, subsets and supersets, chord() and scale() return
\* the first element of what chords() and scales() return for the same
\* search, and undefined exactly when that list is empty
C25_SingularIsFirstOfPlural ==
    pc = "search.first" =>
        LET all == search(index, intervals, enharmonic, out.method,
                          pluralOf(out.accessor)).v
        IN  /\ out.res = at0(all)
            /\ out.res.undefined <=> Len(all) = 0

\* subsets().chord() of a four-note chord: the triad inside it comes first
C25_Witness ==
    /\ pc = "search.first"
    /\ out.method = "subsets"
    /\ out.accessor = "chord"
    /\ intervals = SIXTH[1][2]
    /\ ~out.res.undefined
    /\ out.res.v = "major"

\* the names of a cached list, in its order
namesOf(entries) == [k \in DOMAIN entries |-> entries[k].name]

\* the catalog an accessor searches
typeOf(accessor) ==
    IF accessor \in {"chord", "chords"} THEN "chords" ELSE "scales"

\* C26: after every search each of the four cached lists is empty or holds
\* one entry per catalog name, in catalog order and without duplicates; a list
\* that is built never changes again; and a query for one catalog and mode
\* leaves the lists of the other three untouched
C26_IndexBuiltOnce ==
    /\ [](\A type \in {"chords", "scales"}, et \in {"exact", "enharmonic"} :
            \/ index[type][et] = <<>>
            \/ /\ namesOf(index[type][et]) = keys(catalog(type))
               /\ Cardinality({index[type][et][k].name :
                                   k \in DOMAIN index[type][et]})
                      = Len(index[type][et]))
    /\ [][\A type \in {"chords", "scales"}, et \in {"exact", "enharmonic"} :
             /\ index[type][et] # <<>> => index'[type][et] = index[type][et]
             /\ <<type, et>> #
                    <<typeOf(out'.accessor), enharmonicType(enharmonic')>>
                   => index'[type][et] = index[type][et]]_vars

\* a query answered from a list built earlier, with one list still unbuilt
C26_Witness ==
    /\ pc = "search.all"
    /\ out.accessor = "chords"
    /\ enharmonic
    /\ Len(out.res.v) > 0
    /\ index["chords"]["enharmonic"] # <<>>
    /\ index["chords"]["exact"] # <<>>
    /\ index["scales"]["exact"] # <<>>
    /\ index["scales"]["enharmonic"] = <<>>

\* C30: whatever searches ran before, a query returns what it returns against
\* the index as it is at start-up, which the query builds afresh; so the
\* same query asked again returns the same list
C30_CacheTransparent ==
    pc \in {"search.all", "search.first"} =>
        out.res = search(emptyIndex, intervals, enharmonic, out.method,
                         out.accessor)

\* a query answered once all four lists are built: at least three searches
\* ran before it
C30_Witness ==
    /\ pc = "search.all"
    /\ out.method = "supersets"
    /\ out.accessor = "scales"
    /\ ~enharmonic
    /\ Len(out.res.v) > 1
    /\ \A type \in {"chords", "scales"}, et \in {"exact", "enharmonic"} :
          index[type][et] # <<>>

----------------------------------------------------------------------------
(* Race: the statements of searcher and loadIndex run by two callers of a    *)
(* host that shares the index between threads.  Each caller evaluates the    *)
(* guard, runs the push loop if the guard saw an empty list, and then        *)
(* filters the list.  The loop is one step: interleaving two loops changes   *)
(* the order of the entries, not how many there are.                         *)

Threads == {1, 2}

InitRace ==
    /\ pc = [t \in Threads |-> "guard"]
    /\ n1 = NoNote
    /\ n2 = NoNote
    /\ iv = NoInterval
    /\ out = [t \in Threads |-> Thrown]
    /\ index = emptyIndex
    /\ intervals \in IndexNeedles
    /\ enharmonic \in BOOLEAN
    /\ tonic = <<>>
    /\ name \in {"chords", "scales"}
    /\ nl = <<>>
    /\ sgn = "+"
    /\ num = 0
    /\ num2 = 0
    /\ iv2 = NoInterval
    /\ str = <<>>

\* if (index[type][enharmonicType].length === 0)
Guard ==
    /\ \E t \in Threads :
          /\ pc[t] = "guard"
          /\ pc' = [pc EXCEPT ![t] =
                       IF Len(index[name][enharmonicType(enharmonic)]) = 0
                       THEN "push" ELSE "filter"]
    /\ UNCHANGED <<n1, n2, iv, out, index, intervals, enharmonic, tonic, name,
                   nl, sgn, num, num2, iv2, str>>

\* for (const name in db) index[type][enharmonicType].push(...); num counts
\* the loops that ran
Push ==
    /\ \E t \in Threads :
          /\ pc[t] = "push"
          /\ pc' = [pc EXCEPT ![t] = "filter"]
    /\ index' = pushEntries(index, name, enharmonic)
    /\ num' = num + 1
    /\ UNCHANGED <<n1, n2, iv, out, intervals, enharmonic, tonic, name, nl, sgn,
                   num2, iv2, str>>

\* return haystack.filter(...).map(...)
Filter ==
    /\ \E t \in Threads, filter \in {"exact", "sub", "sup"} :
          /\ pc[t] = "filter"
          /\ pc' = [pc EXCEPT ![t] = "done"]
          /\ out' = [out EXCEPT ![t] =
                        [thrown |-> FALSE, filter |-> filter,
                         names  |-> filterNames(
                                       index[name][enharmonicType(enharmonic)],
                                       filter, bitmask(intervals, enharmonic), 1)]]
    /\ UNCHANGED <<n1, n2, iv, index, intervals, enharmonic, tonic, name, nl,
                   sgn, num, num2, iv2, str>>

NextRace == Guard \/ Push \/ Filter

SpecRace == InitRace /\ [][NextRace]_vars

\* every element of the array occurs in it more than once
allRepeated(arr) ==
    \A j \in DOMAIN arr : \E k \in DOMAIN arr : k # j /\ arr[k] = arr[j]

\* C27: when two first-use builds of one catalog and mode both pass the
\* guard before either pushes, so that both push loops run, the cached list
\* holds every catalog name twice and a query on it returns every matching
\* name more than once
C27_ConcurrentBuildDuplicates ==
    num = 2 =>
        /\ Len(index[name][enharmonicType(enharmonic)]) = 2 * Len(catalog(name))
        /\ allRepeated(namesOf(index[name][enharmonicType(enharmonic)]))
        /\ \A filter \in {"exact", "sub", "sup"} :
              allRepeated(searcher(index, name, intervals, filter, enharmonic))

\* both loops ran, and the caller that filtered last got "major" twice for
\* the major triad
C27_Witness ==
    /\ num = 2
    /\ pc = [t \in Threads |-> "done"]
    /\ name = "chords"
    /\ intervals = TRIADS[1][2]
    /\ out[1].filter = "exact"
    /\ out[1].names = <<"major">>
    /\ out[2].names = <<"major", "major">>

\* C28: transpose and simplify preserve the kind of a note: the result is a
\* pitch when the note is a pitch, octave 0 included, and a pitch class when
\* it is a pitch class
C28_KindPreserved ==
    (pc \in {"transpose", "simplify"} /\ ~out.thrown) =>
        Note_isPitch(out) = Note_isPitch(n1)

\* C29: transposition is additive: for every note n and valid intervals a
\* and b, a.add(b) succeeds, and transposing n by a and then by b gives a
\* note equal to n transposed by a.add(b); so does transposing by b first
C29_TransposeAdditive ==
    pc = "transposeAdd" =>
        /\ ~out.sum.thrown
        /\ ~out.once.thrown
        /\ Note_isEqual(out.twice, out.once)
        /\ Note_isEqual(out.swapped, out.once)

\* a pitch moved up by a doubly altered interval and down by an octave: the
\* sum descends, carries two alterations, and lands in another octave
C29_Witness ==
    /\ pc = "transposeAdd"
    /\ Note_isPitch(n1)
    /\ iv.sign = 1
    /\ iv2.sign = -1
    /\ iv2.number = 8
    /\ out.sum.sign = -1
    /\ Len(out.sum.quality) = MaxQuality
    /\ out.once.octave # n1.octave
    /\ Note_isEqual(out.twice, out.once)

====
